---- MODULE Spec2Model ----
(***************************************************************************)
(* A model of soketto's websocket connection (src/src/connection.rs).      *)
(*                                                                         *)
(* The send path is Connection::send (connection.rs:80-100).  The receive  *)
(* and close paths are the state machine kept in connection.rs:113-505     *)
(* (Stream::poll, Sink::poll_complete, Sink::close and their helpers).     *)
(* The frame codec (crate::base) and the framed transport are not part of  *)
(* the sources; they are modelled from the specification (section 4.1).    *)
(*                                                                         *)
(* The handshake is decode_response of handshake::Client                   *)
(* (handshake/client.rs) and of ClientHandshake (handshake.rs), and        *)
(* decode_request of handshake::Server (handshake/server.rs), with the     *)
(* helpers of handshake.rs, on HTTP messages as the parser hands them over.*)
(*                                                                         *)
(* `wire` lists what the transport accepted, in order: one chunk per       *)
(* write_all of Connection::send and one chunk per frame accepted by       *)
(* framed.start_send.                                                      *)
(***************************************************************************)
EXTENDS Integers, Sequences, FiniteSets, TLC

\* ------------------------------------------------------------------ bounds

\* Frames the transport delivers to the receive path in one run.
MaxRecv == 3
\* The same, in a run that also sends.
MaxRecvMixed == 1
\* Calls of Connection::send in a run of sends alone.
MaxSend == 2
\* Calls of Connection::send in a run that also receives and closes.
MaxSendMixed == 1
\* Protocols added to a handshake (add_protocol).
MaxProtocols == 1
\* Extensions added to a handshake (add_extension).
MaxExtensions == 1
\* Headers of a header list given to expect_ascii_header.
MaxHeaders == 2
\* Protocols added to the client or to the server of a handshake between the
\* two.
MaxOffered == 2
\* Calls of send_response on one Server.
MaxResponses == 2
\* Extensions of a handshake that is turned into a connection.
MaxTakenOver == 2
\* Bytes that follow the head of the HTTP message on the transport.
MaxExtra == 2
\* Reads that return 0 bytes, the stream having ended, in one run of a loop.
MaxEofReads == 2
\* Commands start_send and poll_flush hand to the lambda of an Unfold sink.
MaxCommands == 3
\* Polls on which a future of the lambda returns Pending before it completes.
MaxPending == 2
\* Items a caller sends through an Unfold sink.
MaxItem == 2
\* const BLOCK_SIZE: usize = 4096
BLOCK_SIZE == 4096

\* ------------------------------------------------------------------ bytes

\* a | b on reserved bits (three bits)
BitOr(a, b) ==
    4 * (IF (a \div 4) % 2 = 1 \/ (b \div 4) % 2 = 1 THEN 1 ELSE 0)
    + 2 * (IF (a \div 2) % 2 = 1 \/ (b \div 2) % 2 = 1 THEN 1 ELSE 0)
    + (IF a % 2 = 1 \/ b % 2 = 1 THEN 1 ELSE 0)

RECURSIVE BitXor(_, _)
\* Bitwise exclusive or of two naturals (the ^ of apply_mask).
BitXor(a, b) ==
    IF a = 0 THEN b
    ELSE IF b = 0 THEN a
    ELSE (((a % 2) + (b % 2)) % 2) + 2 * BitXor(a \div 2, b \div 2)

\* A masking that adds the key's bytes instead of XORing them: not its own
\* inverse.
ApplyMaskAdds(mask, bytes) ==
    [i \in 1..Len(bytes) |-> (bytes[i] + mask[((i - 1) % 4) + 1]) % 256]

\* Codec::apply_mask: slice[i] ^= mask[i mod 4] (0-based i).
ApplyMask(mask, bytes) ==
    [i \in 1..Len(bytes) |-> BitXor(bytes[i], mask[((i - 1) % 4) + 1])]

RECURSIVE BigEndian(_, _)
\* The n-byte big-endian encoding of v.
BigEndian(v, n) ==
    IF n = 0 THEN <<>> ELSE Append(BigEndian(v \div 256, n - 1), v % 256)

Bit(b) == IF b THEN 1 ELSE 0

\* ---------------------------------------------------------------- opcodes

DataOps == {"Text", "Binary", "Continue"}
ControlOps == {"Close", "Ping", "Pong"}

OpCodeNum(op) ==
    CASE op = "Continue" -> 0
      [] op = "Text"     -> 1
      [] op = "Binary"   -> 2
      [] op = "Reserved" -> 3
      [] op = "Close"    -> 8
      [] op = "Ping"     -> 9
      [] op = "Pong"     -> 10

NoMask == <<0, 0, 0, 0>>

\* Header::new(opcode): a final frame, no reserved bits, not masked.
HeaderNew(op) ==
    [fin |-> TRUE, rsv1 |-> FALSE, rsv2 |-> FALSE, rsv3 |-> FALSE, opcode |-> op,
     masked |-> FALSE, mask |-> NoMask, payload_len |-> 0]

\* Codec::encode_header: byte 0, byte 1, the extended length, the mask.
EncodeHeader(h) ==
    LET b0 == 128 * Bit(h.fin) + 64 * Bit(h.rsv1) + 32 * Bit(h.rsv2)
              + 16 * Bit(h.rsv3) + OpCodeNum(h.opcode)
        n == h.payload_len
        code == IF n <= 125 THEN n ELSE IF n <= 65535 THEN 126 ELSE 127
        ext == IF n <= 125 THEN <<>>
               ELSE IF n <= 65535 THEN BigEndian(n, 2) ELSE BigEndian(n, 8)
    IN  <<b0, 128 * Bit(h.masked) + code>> \o ext
        \o (IF h.masked THEN h.mask ELSE <<>>)

\* The opcode of the low four bits of byte 0.
OpCodeOf(n) ==
    CASE n = 0 -> "Continue"
      [] n = 1 -> "Text"
      [] n = 2 -> "Binary"
      [] n = 8 -> "Close"
      [] n = 9 -> "Ping"
      [] n = 10 -> "Pong"
      [] OTHER -> "Reserved"

RECURSIVE FromBigEndian(_)
\* The number whose big-endian encoding the bytes are.
FromBigEndian(bs) ==
    IF bs = <<>> THEN 0
    ELSE 256 * FromBigEndian(SubSeq(bs, 1, Len(bs) - 1)) + bs[Len(bs)]

\* The results of decode_header.
HeaderDone(h, n) == [kind |-> "Done", header |-> h, consumed |-> n, err |-> ""]
HeaderNeedMore ==
    [kind |-> "NeedMore", header |-> <<>>, consumed |-> 0, err |-> ""]
HeaderErr(e) == [kind |-> "Err", header |-> <<>>, consumed |-> 0, err |-> e]

\* A decoder that reads the length code as the length and never looks at
\* the extended length field.
DecodeHeaderShortOnly(cd, bytes) ==
    IF Len(bytes) < 2 THEN HeaderNeedMore
    ELSE HeaderDone([fin |-> bytes[1] >= 128,
                     rsv1 |-> (bytes[1] \div 64) % 2 = 1,
                     rsv2 |-> (bytes[1] \div 32) % 2 = 1,
                     rsv3 |-> (bytes[1] \div 16) % 2 = 1,
                     opcode |-> OpCodeOf(bytes[1] % 16),
                     masked |-> bytes[2] >= 128,
                     mask |-> IF bytes[2] >= 128 /\ Len(bytes) >= 6
                              THEN SubSeq(bytes, 3, 6) ELSE <<0, 0, 0, 0>>,
                     payload_len |-> bytes[2] % 128],
                    2 + (IF bytes[2] >= 128 THEN 4 ELSE 0))

\* Codec::decode_header in a codec cd: at least two bytes; no RSV bit the
\* codec does not accept; a control frame is final and has no extended
\* length; the extended length, big-endian, at most max_payload_len; the
\* mask if the MASK bit is set; the number of header bytes.
DecodeHeader(cd, bytes) ==
    IF Len(bytes) < 2 THEN HeaderNeedMore
    ELSE
      LET b0 == bytes[1]
          b1 == bytes[2]
          fin == b0 >= 128
          rsv == (b0 \div 16) % 8
          op == OpCodeOf(b0 % 16)
          masked == b1 >= 128
          code == b1 % 128
          extLen == IF code = 126 THEN 2 ELSE IF code = 127 THEN 8 ELSE 0
          total == 2 + extLen + (IF masked THEN 4 ELSE 0)
      IN  IF \E k \in {1, 2, 4} :
                 (rsv \div k) % 2 = 1 /\ (cd.reserved_bits \div k) % 2 = 0
          THEN HeaderErr("InvalidReservedBit")
          ELSE IF op = "Reserved" THEN HeaderErr("UnknownOpCode")
          ELSE IF op \in ControlOps /\ ~fin
               THEN HeaderErr("FragmentedControl")
          ELSE IF op \in ControlOps /\ code > 125
               THEN HeaderErr("InvalidControlFrameLen")
          ELSE IF Len(bytes) < 2 + extLen THEN HeaderNeedMore
          ELSE
            LET n == IF extLen = 0 THEN code
                     ELSE FromBigEndian(SubSeq(bytes, 3, 2 + extLen))
            IN  IF n > cd.max_payload_len THEN HeaderErr("PayloadTooLarge")
                ELSE IF Len(bytes) < total THEN HeaderNeedMore
                ELSE HeaderDone(
                         [fin |-> fin,
                          rsv1 |-> (rsv \div 4) % 2 = 1,
                          rsv2 |-> (rsv \div 2) % 2 = 1,
                          rsv3 |-> rsv % 2 = 1,
                          opcode |-> op,
                          masked |-> masked,
                          mask |-> IF masked
                                   THEN SubSeq(bytes, total - 3, total)
                                   ELSE <<0, 0, 0, 0>>,
                          payload_len |-> n],
                         total)

\* ----------------------------------------------------------------- values

\* Option<Data>: None, or Some(Data::Text(bytes)) / Some(Data::Binary(bytes)).
None == [some |-> FALSE, type |-> "Binary", bytes |-> <<>>]
Some(t, b) == [some |-> TRUE, type |-> t, bytes |-> b]

\* Frame::new(opcode): a final frame without payload data.
FrameNew(op) ==
    [op |-> op, fin |-> TRUE, masked |-> FALSE, mask |-> NoMask, data |-> None]

NoFrame == FrameNew("Continue")

\* The handshake variables while no handshake is modelled: no handshake
\* object, no HTTP message given to a decoder, no result of one.
NoHandshake == [role |-> "None"]
NoMessage == [parse |-> "None"]
NoResult == [kind |-> "None"]

\* The masks rand::random() may return (connection.rs:92).
Masks == {<<1, 2, 4, 8>>, <<255, 0, 16, 3>>}

\* The payloads handed to Connection::send.
SendPayloads == {<<>>, <<65>>, <<65, 200, 66, 67, 68>>}

\* The mask set_mask draws for a frame of the state machine.
ReplyMask == <<255, 0, 16, 3>>

\* The frames the peer sends, as framed.poll() yields them in
\* Ready(Some(frame)): the codec has already unmasked the payload, which is
\* Data::Text for a Text frame and Data::Binary otherwise; a control frame
\* is final.  Close frames carry no payload, code 1000 or code 1006.
DataFrame(op, f, b) ==
    [FrameNew(op) EXCEPT !.fin = f, !.data = Some(IF op = "Text" THEN "Text" ELSE "Binary", b)]

InFrames ==
    {DataFrame("Text", f, <<1>>) : f \in BOOLEAN}
    \cup {DataFrame("Binary", f, <<2>>) : f \in BOOLEAN}
    \cup {DataFrame("Binary", TRUE, <<4, 5, 6, 7>>)}
    \cup {DataFrame("Continue", f, b) : f \in BOOLEAN, b \in {<<>>, <<3>>}}
    \cup {DataFrame("Ping", TRUE, b) : b \in {<<>>, <<7>>}}
    \cup {DataFrame("Pong", TRUE, <<>>)}
    \cup {DataFrame("Close", TRUE, b) : b \in {<<>>, <<3, 232>>, <<3, 238>>}}
    \cup {FrameNew("Reserved")}

\* ------------------------------------------------------------ close answer

IsCont(b) == b >= 128 /\ b <= 191

RECURSIVE IsUtf8(_)
\* std::str::from_utf8(bytes).is_ok()
IsUtf8(bs) ==
    IF Len(bs) = 0 THEN TRUE
    ELSE LET b == bs[1]
             n == Len(bs)
             rest(k) == SubSeq(bs, k + 1, n)
         IN  IF b < 128 THEN IsUtf8(rest(1))
             ELSE IF b >= 194 /\ b <= 223
                  THEN n >= 2 /\ IsCont(bs[2]) /\ IsUtf8(rest(2))
             ELSE IF b >= 224 /\ b <= 239
                  THEN /\ n >= 3
                       /\ IsCont(bs[2]) /\ IsCont(bs[3])
                       /\ (b = 224 => bs[2] >= 160)
                       /\ (b = 237 => bs[2] <= 159)
                       /\ IsUtf8(rest(3))
             ELSE IF b >= 240 /\ b <= 244
                  THEN /\ n >= 4
                       /\ IsCont(bs[2]) /\ IsCont(bs[3]) /\ IsCont(bs[4])
                       /\ (b = 240 => bs[2] >= 144)
                       /\ (b = 244 => bs[2] <= 143)
                       /\ IsUtf8(rest(4))
             ELSE FALSE

\* The close codes that are echoed back (connection.rs:458), with the upper
\* end of the first range off by one: a plausible slip.
AcceptableCodeOffByOne(code) ==
    \/ code >= 1000 /\ code <= 1004
    \/ code >= 1007 /\ code <= 1011
    \/ code = 1015
    \/ code >= 3000 /\ code <= 4999

\* 1000 ..= 1003 | 1007 ..= 1011 | 1015 | 3000 ..= 4999
AcceptableCode(code) ==
    \/ code >= 1000 /\ code <= 1003
    \/ code >= 1007 /\ code <= 1011
    \/ code = 1015
    \/ code >= 3000 /\ code <= 4999

\* close_answer(frame): Ok(answer) or Err(Utf8).
CloseAnswer(frame) ==
    IF frame.data.some /\ Len(frame.data.bytes) >= 2
    THEN LET slice == frame.data.bytes
             code == 256 * slice[1] + slice[2]
         IN  IF ~IsUtf8(SubSeq(slice, 3, Len(slice)))
             THEN [ok |-> FALSE, err |-> "Utf8", frame |-> NoFrame]
             ELSE [ok |-> TRUE, err |-> "",
                   frame |-> [FrameNew("Close") EXCEPT !.data =
                       IF AcceptableCode(code)
                       THEN [frame.data EXCEPT !.bytes = SubSeq(slice, 1, 2)]
                       ELSE Some("Binary", BigEndian(1002, 2))]]
    ELSE [ok |-> TRUE, err |-> "", frame |-> FrameNew("Close")]

\* ensure_max_buffer_size(maximum, current, new)
EnsureMaxBufferSize(maximum, current, new) ==
    Len(current.bytes) + Len(new.bytes) <= maximum

\* ------------------------------------------------------------------ state

\* The names of extensions that occur.
ExtDeflate == <<112, 101, 114, 109, 101, 115, 115, 97, 103, 101, 45, 100, 101, 102, 108, 97, 116, 101>>
ExtSnappy == <<120, 45, 115, 110, 97, 112, 112, 121>>

\* reserved_bits() of an extension, RSV1 = 4, RSV2 = 2, RSV3 = 1: the first
\* extension claims RSV1, the other RSV2.
ReservedBits(n) == IF n = ExtDeflate THEN 4 ELSE 2

\* Box<dyn Extension>: its name, whether it is enabled and its reserved bits.
Extension(n) ==
    [name |-> n, enabled |-> FALSE, reserved_bits |-> ReservedBits(n)]

\* base::Codec::default(): no reserved bit is accepted, a payload has at
\* most 256 MiB.
CodecDefault == [reserved_bits |-> 0, max_payload_len |-> 268435456]

VARIABLES
    mode,       \* Connection.mode: "Client" or "Server"
    wire,       \* the chunks the transport accepted, in order
    state,      \* the state machine's State (None: taken and not put back)
    call,       \* the handler whose loop is running: "none" or "poll"
    ret,        \* what the last handler call returned
    retOf,      \* the handler that returned it
    dropped,    \* a call returned an error and the caller dropped the connection
    nRecv,      \* frames framed.poll() has yielded
    nSend,      \* calls of Connection::send
    sendPc,     \* Connection::send: "idle", "header" (awaiting the first
                \* write_all) or "payload" (awaiting the second)
    sendHdr,    \* header_bytes of the send in flight
    sendData,   \* data of the send in flight (masked in place for a client)
    sendLog,    \* history: the data and as_text of every send call, in call
                \* order, with the header bytes and the data it went on to write
    lastIn,     \* history: the frame the last step took from framed.poll(),
                \* or the frame the codec refused in it
    rxData,     \* history: the data frames of the unfinished message
    pingLog,    \* history: the payloads of the Ping frames taken in state Open
    closeDone,  \* history: a close() call has returned Ready
    caIn,       \* close_answer alone: the Close frame given to it
    caOut,      \* close_answer alone: what it returned
    exts,       \* Connection.extensions: the extensions it holds, in order
    codec,      \* Connection.codec: the reserved bits it accepts
    decLog,     \* history: the calls of an extension's decode, in order
    hs,         \* the handshake object (handshake::Client, ClientHandshake or
                \* handshake::Server) with its position in the handshake; in
                \* the specifications of a client with a server, of a read
                \* loop or of a function by itself, the objects of that
                \* specification
    hsIn,       \* the input last given to the decoder or function at work:
                \* an HTTP message, what has been written to the transport,
                \* or the arguments of the function
    hsOut       \* what that decoder or function returned

vars == <<mode, wire, state, call, ret, retOf, dropped, nRecv, nSend, sendPc,
          sendHdr, sendData, sendLog, lastIn, rxData, pingLog, closeDone,
          caIn, caOut, exts, codec, decLog, hs, hsIn, hsOut>>

\* self.max_buffer_size, the configured maximum message size.
\* self.max_buffer_size: the most bytes a message may have.
MaxBufferSize == 2

St(tag, frame, buf) == [tag |-> tag, frame |-> frame, buf |-> buf]
\* self.state after state.take() when nothing is put back.
StNone == St("None", NoFrame, None)

RReady(v) == [kind |-> "Ready", val |-> v, err |-> ""]
RNotReady == [kind |-> "NotReady", val |-> None, err |-> ""]
RErr(e) == [kind |-> "Err", val |-> None, err |-> e]
RLoop == [kind |-> "Loop", val |-> None, err |-> ""]
RNone == [kind |-> "none", val |-> None, err |-> ""]

\* One outcome of a handler step: the new State, the chunks written, the result.
Out(st, ws, r) == [st |-> st, ws |-> ws, ret |-> r, dec |-> <<>>]

\* What an extension's decode makes of the data it is given: here every
\* byte plus one, so that decoding twice shows.
ExtDecode(d) ==
    [d EXCEPT !.bytes = [i \in 1..Len(d.bytes) |-> (d.bytes[i] + 1) % 256]]

\* decode_with_extensions(h, d, exts): the outcomes. With no extension the
\* loop does nothing; with one, its decode succeeds or fails.
DecodeWithExtensions(d) ==
    IF exts = <<>> THEN {[ok |-> TRUE, data |-> d]}
    ELSE {[ok |-> TRUE, data |-> ExtDecode(d)], [ok |-> FALSE, data |-> d]}

\* The calls of an extension's decode that decode_with_extensions makes for
\* the data d of a frame with the given fin.
DecodeCalls(fin, d) ==
    IF exts = <<>> THEN <<>> ELSE <<[fin |-> fin, bytes |-> d.bytes]>>

\* The codec's encoder for a frame: the header, then the payload, masked if
\* the frame is.
EncodeFrame(f) ==
    LET bytes == IF f.data.some THEN f.data.bytes ELSE <<>>
        h == [HeaderNew(f.op) EXCEPT !.fin = f.fin, !.masked = f.masked,
                                     !.mask = f.mask, !.payload_len = Len(bytes)]
    IN  EncodeHeader(h) \o (IF f.masked THEN ApplyMask(f.mask, bytes) ELSE bytes)

Chunk(src, f) == [src |-> src, bytes |-> EncodeFrame(f)]

\* self.set_mask(&mut frame): a client masks what it sends.
SetMask(f, m) ==
    IF mode = "Client" THEN [f EXCEPT !.masked = TRUE, !.mask = m] ELSE f

\* The masks Connection::send may draw in this mode.
MaskChoices == IF mode = "Client" THEN Masks ELSE {NoMask}


\* try_ready!(e) inside the loop of poll: Ready lets the loop go on.
TryReady(S) == {IF o.ret.kind = "Ready" THEN [o EXCEPT !.ret = RLoop] ELSE o : o \in S}

\* flush(buf), after the chunks ws were accepted by framed.start_send.
Flush(buf, ws) ==
    {Out(StNone, ws, RErr("Io")),
     Out(St("Flush", NoFrame, buf), ws, RNotReady),
     Out(St("Open", NoFrame, buf), ws, RReady(None))}

\* answer_ping that forgets the buffered fragment: a plausible slip.
AnswerPingDropsBuf(frame, buf) ==
    {Out(StNone, <<>>, RErr("Io")),
     Out(St("AnswerPing", frame, None), <<>>, RNotReady)}
    \cup Flush(None, <<Chunk("pong", frame)>>)

\* answer_ping(frame, buf)
AnswerPing(frame, buf) ==
    {Out(StNone, <<>>, RErr("Io")),
     Out(St("AnswerPing", frame, buf), <<>>, RNotReady)}
    \cup Flush(buf, <<Chunk("pong", frame)>>)

\* closing()
Closing(ws) ==
    {Out(StNone, ws, RErr("Io")),
     Out(St("Closing", NoFrame, None), ws, RNotReady),
     Out(St("Closed", NoFrame, None), ws, RReady(None))}

\* answer_close that flushes like answer_ping and goes back to Open: a
\* plausible slip.
AnswerCloseStaysOpen(frame) ==
    {Out(StNone, <<>>, RErr("Io")),
     Out(St("AnswerClose", frame, None), <<>>, RNotReady)}
    \cup Flush(None, <<Chunk("close_echo", frame)>>)

\* answer_close(frame)
AnswerClose(frame) ==
    {Out(StNone, <<>>, RErr("Io")),
     Out(St("AnswerClose", frame, None), <<>>, RNotReady)}
    \cup Closing(<<Chunk("close_echo", frame)>>)

\* flush_close()
FlushClose(ws) ==
    {Out(StNone, ws, RErr("Io")),
     Out(St("FlushClose", NoFrame, None), ws, RNotReady),
     Out(St("AwaitClose", NoFrame, None), ws, RReady(None))}

\* send_close(frame)
SendClose(frame) ==
    {Out(StNone, <<>>, RErr("Io")),
     Out(St("SendClose", frame, None), <<>>, RNotReady)}
    \cup FlushClose(<<Chunk("close", frame)>>)

\* What framed.poll() may return.
PollFrame(f) == [kind |-> "Frame", frame |-> f]
PollEof == [kind |-> "Eof", frame |-> NoFrame]
PollNotReady == [kind |-> "NotReady", frame |-> NoFrame]
PollErr == [kind |-> "Err", frame |-> NoFrame]

\* The key of the frames that arrive masked.
PeerMask == <<1, 2, 4, 8>>

\* A frame as the peer put it on the wire, masked or not.
WireFrame(f, masked) ==
    IF masked
    THEN [f EXCEPT !.masked = TRUE, !.mask = PeerMask,
                   !.data = [f.data EXCEPT
                                !.bytes = ApplyMask(PeerMask, f.data.bytes)]]
    ELSE f

WireFrames == {WireFrame(f, k) : f \in InFrames, k \in BOOLEAN}

\* The codec's decoder in a connection of mode md, given the frame w of the
\* wire: a server refuses a frame that is not masked (a codec error that
\* carries the frame here, for the properties to read); a masked payload is
\* unmasked.
CodecDecode(md, w) ==
    IF md = "Server" /\ ~w.masked
    THEN [kind |-> "Err", frame |-> w]
    ELSE PollFrame([w EXCEPT !.data =
            [w.data EXCEPT !.bytes = IF w.masked
                                     THEN ApplyMask(w.mask, w.data.bytes)
                                     ELSE w.data.bytes]])

FramedPoll ==
    {CodecDecode(mode, w) : w \in WireFrames}
    \cup {PollEof, PollNotReady, PollErr}

\* await_close(), with r what framed.poll() returned.
AwaitClose(r) ==
    CASE r.kind = "Err" -> {Out(StNone, <<>>, RErr("Codec"))}
      [] r.kind = "Frame" ->
            IF r.frame.op = "Close"
            THEN {Out(St("Closed", NoFrame, None), <<>>, RReady(None))}
            ELSE {Out(StNone, <<>>, RNotReady)}
      [] r.kind = "Eof" -> {Out(St("Closed", NoFrame, None), <<>>, RNotReady)}
      [] r.kind = "NotReady" -> {Out(St("AwaitClose", NoFrame, None), <<>>, RNotReady)}

\* ---------------------------------------------------------- Stream::poll

Pong(f) == [FrameNew("Pong") EXCEPT !.data = f.data]

\* The answer to a received Close frame: close_answer(frame)?, set_mask,
\* try_ready!(answer_close(answer)).
OnClose(f, m) ==
    LET ca == CloseAnswer(f)
    IN  IF ca.ok THEN TryReady(AnswerClose(SetMask(ca.frame, m)))
        ELSE {Out(StNone, <<>>, RErr(ca.err))}

\* unsplit that puts the new bytes in front: a plausible slip.
UnsplitInFront(data, d) == [data EXCEPT !.bytes = d.bytes \o data.bytes]

\* data.bytes_mut().unsplit(d.into_bytes())
Unsplit(data, d) == [data EXCEPT !.bytes = data.bytes \o d.bytes]

\* The arm State::Open(None) with Ready(Some(frame)).
PollIdle(f, m) ==
    CASE f.op \in {"Text", "Binary"} /\ f.fin ->
            {[Out(St("Open", NoFrame, None), <<>>,
                  IF x.ok THEN RReady(x.data) ELSE RErr("Extension"))
                 EXCEPT !.dec = DecodeCalls(f.fin, f.data)] :
             x \in DecodeWithExtensions(f.data)}
      [] f.op \in {"Text", "Binary"} /\ ~f.fin ->
            {[(IF x.ok THEN Out(St("Open", NoFrame, x.data), <<>>, RLoop)
               ELSE Out(StNone, <<>>, RErr("Extension")))
                 EXCEPT !.dec = DecodeCalls(f.fin, f.data)] :
             x \in DecodeWithExtensions(f.data)}
      [] f.op = "Ping" -> TryReady(AnswerPing(SetMask(Pong(f), m), None))
      [] f.op = "Close" -> OnClose(f, m)
      [] f.op = "Pong" -> {Out(St("Open", NoFrame, None), <<>>, RLoop)}
      [] OTHER -> {Out(StNone, <<>>, RErr("UnexpectedOpCode"))}

\* The arm State::Open(Some(data)) that takes a second Text or Binary frame
\* as the start of a new message: a plausible slip.
PollFragmentTakesData(data, f, m) ==
    IF f.op \in {"Text", "Binary"} THEN PollIdle(f, m)
    ELSE {Out(StNone, <<>>, RErr("UnexpectedOpCode"))}

\* The arm State::Open(Some(data)) with Ready(Some(frame)).
PollFragment(data, f, m) ==
    CASE f.op = "Continue" ->
            IF f.data.some /\ ~EnsureMaxBufferSize(MaxBufferSize, data, f.data)
            THEN {Out(StNone, <<>>, RErr("MessageTooLarge"))}
            ELSE LET all == IF f.data.some THEN Unsplit(data, f.data) ELSE data
                 IN  {[(IF ~x.ok THEN Out(StNone, <<>>, RErr("Extension"))
                        ELSE IF f.fin
                        THEN Out(St("Open", NoFrame, None), <<>>, RReady(x.data))
                        ELSE Out(St("Open", NoFrame, x.data), <<>>, RLoop))
                          EXCEPT !.dec = DecodeCalls(f.fin, all)] :
                      x \in DecodeWithExtensions(all)}
      [] f.op = "Ping" -> TryReady(AnswerPing(SetMask(Pong(f), m), data))
      [] f.op = "Close" -> OnClose(f, m)
      [] f.op = "Pong" -> {Out(St("Open", NoFrame, data), <<>>, RLoop)}
      [] OTHER -> {Out(StNone, <<>>, RErr("UnexpectedOpCode"))}

\* The arm Some(State::Closed) | None.
PollClosed == {Out(StNone, <<>>, RReady(None))}

\* The arms State::Open with the ? of self.framed.poll()? left out, so that
\* an error of the codec is passed over like NotReady: a plausible slip.
PollOpenPassesOverErr(s, r, m) ==
    IF r.kind = "Frame"
    THEN (IF s.buf.some THEN PollFragment(s.buf, r.frame, m)
          ELSE PollIdle(r.frame, m))
    ELSE IF r.kind = "Eof"
    THEN {Out(St("Closed", NoFrame, None), <<>>, RReady(None))}
    ELSE {Out(s, <<>>, RNotReady)}

\* The arms State::Open(None) and State::Open(Some(data)) of poll: what
\* self.framed.poll()? leads to.
PollOpen(s, r, m) ==
    CASE r.kind = "Err" -> {Out(StNone, <<>>, RErr("Codec"))}
      [] r.kind = "Eof" -> {Out(St("Closed", NoFrame, None), <<>>, RReady(None))}
      [] r.kind = "NotReady" -> {Out(s, <<>>, RNotReady)}
      [] r.kind = "Frame" ->
            IF s.buf.some THEN PollFragment(s.buf, r.frame, m)
            ELSE PollIdle(r.frame, m)

\* One turn of the loop of poll from State s; r is what framed.poll() returns
\* (in the arms that call it) and m the mask set_mask draws.
PollStep(s, r, m) ==
    CASE s.tag = "Open" -> PollOpen(s, r, m)
      [] s.tag = "AnswerPing" -> TryReady(AnswerPing(s.frame, s.buf))
      [] s.tag = "SendClose" -> TryReady(SendClose(s.frame))
      [] s.tag = "AnswerClose" -> TryReady(AnswerClose(s.frame))
      [] s.tag = "Flush" -> TryReady(Flush(s.buf, <<>>))
      [] s.tag = "FlushClose" -> TryReady(FlushClose(<<>>))
      [] s.tag = "AwaitClose" -> TryReady(AwaitClose(r))
      [] s.tag = "Closing" -> TryReady(Closing(<<>>))
      [] OTHER -> PollClosed

\* Whether a turn of poll from State s calls framed.poll().
Reads(s) == s.tag \in {"Open", "AwaitClose"}

\* What framed.poll() may return to a handler step that calls it, and the
\* placeholder for a step that does not.
PollResults(reads) == IF reads THEN FramedPoll ELSE {PollNotReady}

\* ------------------------------------------- Sink::poll_complete, close

\* Whether close() from State s calls framed.poll(): poll_complete does in
\* await_close only.
CloseReads(s) == s.tag = "AwaitClose"

\* poll_complete()
PollComplete(s, r) ==
    CASE s.tag = "Open" ->
            {Out(s, <<>>, RErr("Io")), Out(s, <<>>, RNotReady), Out(s, <<>>, RReady(None))}
      [] s.tag = "AnswerPing" -> AnswerPing(s.frame, s.buf)
      [] s.tag = "AnswerClose" -> AnswerClose(s.frame)
      [] s.tag = "Flush" -> Flush(s.buf, <<>>)
      [] s.tag = "Closing" -> Closing(<<>>)
      [] s.tag = "AwaitClose" -> AwaitClose(r)
      [] s.tag = "SendClose" -> SendClose(s.frame)
      [] s.tag = "FlushClose" -> FlushClose(<<>>)
      [] OTHER -> {Out(StNone, <<>>, RReady(None))}

\* The Close frame of close(): code 1000, normal closure.
CloseFrame == [FrameNew("Close") EXCEPT !.data = Some("Binary", BigEndian(1000, 2))]

\* close() that sends its Close frame whatever the state: a plausible slip.
CloseAlways(s, r, m) ==
    UNION {IF o.ret.kind # "Ready" THEN {o}
           ELSE {[o2 EXCEPT !.ws = o.ws \o o2.ws] : o2 \in SendClose(SetMask(CloseFrame, m))}
           : o \in PollComplete(s, r)}

\* close()
Close(s, r, m) ==
    UNION {IF o.ret.kind # "Ready" THEN {o}
           ELSE IF o.st.tag = "Open"
                THEN {[o2 EXCEPT !.ws = o.ws \o o2.ws] :
                          o2 \in SendClose(SetMask(CloseFrame, m))}
                ELSE {Out(StNone, o.ws, RReady(None))}
           : o \in PollComplete(s, r)}

\* ------------------------------------------------------- Connection::send

\* send that masks whatever the mode: a plausible slip.
SendFrameAlwaysMasks(md, data, as_text, m) ==
    LET h == [HeaderNew(IF as_text THEN "Text" ELSE "Binary") EXCEPT
                  !.masked = TRUE, !.mask = m, !.payload_len = Len(data)]
    IN  [hdr |-> EncodeHeader(h), data |-> ApplyMask(m, data)]

\* connection.rs:84-96: the header bytes and the data Connection::send writes
\* once the extensions, if any, have encoded.
SendFrame(md, data, as_text, m) ==
    LET h0 == HeaderNew(IF as_text THEN "Text" ELSE "Binary")
        h1 == IF md = "Client" THEN [h0 EXCEPT !.masked = TRUE, !.mask = m] ELSE h0
        d1 == IF md = "Client" THEN ApplyMask(m, data) ELSE data
        h2 == [h1 EXCEPT !.payload_len = Len(d1)]
    IN  [hdr |-> EncodeHeader(h2), data |-> d1]

\* A reader that shares the socket with the writer without holding the
\* connection exclusively: a plausible slip.
HandlerMayRunShared == TRUE

\* send takes &mut self, and so do the handlers of the state machine: while
\* the future of a send is alive, no handler of the same connection runs.
HandlerMayRun == sendPc = "idle"

\* The proper prefixes of bytes a failing write_all may have written.
Partial(bytes) == {SubSeq(bytes, 1, k) : k \in 0..(Len(bytes) - 1)}

\* ---------------------------------------------------------------- actions

Init ==
    /\ mode \in {"Client", "Server"}
    /\ wire = <<>>
    /\ state = St("Open", NoFrame, None)
    /\ call = "none"
    /\ ret = RNone
    /\ retOf = "none"
    /\ dropped = FALSE
    /\ nRecv = 0
    /\ nSend = 0
    /\ sendPc = "idle"
    /\ sendHdr = <<>>
    /\ sendData = <<>>
    /\ sendLog = <<>>
    /\ lastIn = NoFrame
    /\ rxData = <<>>
    /\ pingLog = <<>>
    /\ closeDone = FALSE
    /\ caIn = NoFrame
    /\ caOut = [done |-> FALSE, res |-> CloseAnswer(NoFrame)]
    /\ exts = <<>>
    /\ codec = CodecDefault
    /\ decLog = <<>>
    /\ hs = NoHandshake
    /\ hsIn = NoMessage
    /\ hsOut = NoResult

SendVarsUnchanged ==
    UNCHANGED <<mode, nSend, sendPc, sendHdr, sendData, sendLog, caIn, caOut,
                exts, codec, hs, hsIn, hsOut>>

\* What a handler step with outcome o does to the connection; r is what
\* framed.poll() returned to it if it reads, `of` names the handler.
Step(o, r, reads, of, limit) ==
    LET took == reads /\ r.kind = "Frame"
        data == took /\ state.tag = "Open" /\ r.frame.op \in DataOps
    IN  /\ took => nRecv < limit
        /\ state' = o.st
        /\ wire' = wire \o o.ws
        /\ ret' = o.ret
        /\ retOf' = of
        /\ dropped' = (o.ret.kind = "Err")
        /\ nRecv' = IF took THEN nRecv + 1 ELSE nRecv
        /\ lastIn' = IF reads /\ r.kind \in {"Frame", "Err"}
                     THEN r.frame ELSE NoFrame
        /\ rxData' = IF ~data THEN rxData
                     ELSE IF r.frame.fin THEN <<>> ELSE Append(rxData, r.frame)
        /\ pingLog' = IF took /\ state.tag = "Open" /\ r.frame.op = "Ping"
                      THEN Append(pingLog, r.frame.data.bytes) ELSE pingLog
        /\ decLog' = decLog \o o.dec

\* One turn of the loop of Stream::poll; the call returns unless the loop
\* goes on.
Poll(limit) ==
    /\ ~dropped
    /\ HandlerMayRun
    /\ \E r \in PollResults(Reads(state)) :
        \E o \in PollStep(state, r, ReplyMask) :
            /\ Step(o, r, Reads(state), "poll", limit)
            /\ call' = IF o.ret.kind = "Loop" THEN "poll" ELSE "none"
    /\ UNCHANGED closeDone
    /\ SendVarsUnchanged

\* Sink::close
SinkClose(limit) ==
    /\ ~dropped
    /\ call = "none"
    /\ HandlerMayRun
    /\ \E r \in PollResults(CloseReads(state)) :
        \E o \in Close(state, r, ReplyMask) :
            /\ Step(o, r, CloseReads(state), "close", limit)
            /\ closeDone' = (closeDone \/ o.ret.kind = "Ready")
    /\ UNCHANGED call
    /\ SendVarsUnchanged

RecvVarsUnchanged ==
    UNCHANGED <<mode, state, call, nRecv, lastIn, rxData, pingLog, closeDone,
                caIn, caOut, exts, codec, decLog, hs, hsIn, hsOut>>

\* A loop over the extensions that calls every one of them and reports a
\* failure at the end: a plausible slip.
EncodeLoopCallsAll(es, fails) ==
    [ok |-> fails \cap (1..Len(es)) = {}, calls |-> Len(es)]

\* connection.rs:86-89: `for e in &mut self.extensions { e.encode(..)? }`,
\* given the extensions whose encode returns Err when called (Extension is
\* not in src/; an encode that returns Ok leaves header and data as they
\* are): whether the loop ran through, and how many extensions it called.
EncodeLoop(es, fails) ==
    LET bad == fails \cap (1..Len(es))
    IN  IF bad = {} THEN [ok |-> TRUE, calls |-> Len(es)]
        ELSE [ok |-> FALSE, calls |-> CHOOSE i \in bad : \A j \in bad : i <= j]

\* Connection::send up to its first await: the extensions have encoded, the
\* header and the data are ready and write_all(header_bytes) is pending; or
\* an extension has failed and send has returned its error.
SendBegin(limit, payloads) ==
    /\ ~dropped
    /\ call = "none"
    /\ sendPc = "idle"
    /\ nSend < limit
    /\ \E data \in payloads, as_text \in BOOLEAN, m \in MaskChoices,
          fails \in SUBSET (1..Len(exts)) :
        LET f == SendFrame(mode, data, as_text, m)
            e == EncodeLoop(exts, fails)
        IN  /\ sendLog' = Append(sendLog,
                                 [data |-> data, as_text |-> as_text,
                                  hdr |-> IF e.ok THEN f.hdr ELSE <<>>,
                                  out |-> IF e.ok THEN f.data ELSE <<>>,
                                  fails |-> fails, calls |-> e.calls,
                                  at |-> Len(wire)])
            /\ IF e.ok
               THEN /\ sendHdr' = f.hdr
                    /\ sendData' = f.data
                    /\ sendPc' = "header"
                    /\ ret' = RNone
                    /\ UNCHANGED dropped
               ELSE /\ ret' = RErr("Extension")
                    /\ dropped' = TRUE
                    /\ UNCHANGED <<sendHdr, sendData, sendPc>>
    /\ nSend' = nSend + 1
    /\ retOf' = "send"
    /\ UNCHANGED wire
    /\ RecvVarsUnchanged

\* self.socket.write_all(header_bytes).await?
SendWriteHeader ==
    /\ sendPc = "header"
    /\ \/ /\ wire' = Append(wire, [src |-> "send_header", bytes |-> sendHdr])
          /\ sendPc' = "payload"
          /\ UNCHANGED <<ret, dropped>>
       \/ /\ \E p \in Partial(sendHdr) :
                wire' = Append(wire, [src |-> "send_partial", bytes |-> p])
          /\ sendPc' = "idle"
          /\ ret' = RErr("Io")
          /\ dropped' = TRUE
    /\ UNCHANGED <<nSend, sendHdr, sendData, sendLog, retOf>>
    /\ RecvVarsUnchanged

\* The second write_all writing the data twice: a plausible slip.
SendWritePayloadTwice ==
    /\ sendPc = "payload"
    /\ wire' = wire \o <<[src |-> "send_payload", bytes |-> sendData],
                          [src |-> "send_payload", bytes |-> sendData]>>
    /\ ret' = RReady(None)
    /\ sendPc' = "idle"
    /\ UNCHANGED <<dropped, nSend, sendHdr, sendData, sendLog, retOf>>
    /\ RecvVarsUnchanged

\* self.socket.write_all(data).await?; Ok(())
SendWritePayload ==
    /\ sendPc = "payload"
    /\ \/ /\ wire' = Append(wire, [src |-> "send_payload", bytes |-> sendData])
          /\ ret' = RReady(None)
          /\ UNCHANGED dropped
       \/ /\ \E p \in Partial(sendData) :
                wire' = Append(wire, [src |-> "send_partial", bytes |-> p])
          /\ ret' = RErr("Io")
          /\ dropped' = TRUE
    /\ sendPc' = "idle"
    /\ UNCHANGED <<nSend, sendHdr, sendData, sendLog, retOf>>
    /\ RecvVarsUnchanged

\* Runs of the state machine: receiving and closing.
Next ==
    \/ Poll(MaxRecv)
    \/ SinkClose(MaxRecv)

Spec == Init /\ [][Next]_vars

\* Runs of Connection::send alone.
NextSend ==
    \/ SendBegin(MaxSend, SendPayloads)
    \/ SendWriteHeader
    \/ SendWritePayload

SpecSend == Init /\ [][NextSend]_vars

\* Runs that receive, close and send on the same connection.
NextMixed ==
    \/ Poll(MaxRecvMixed)
    \/ SinkClose(MaxRecvMixed)
    \/ SendBegin(MaxSendMixed, {<<65>>})
    \/ SendWriteHeader
    \/ SendWritePayload

SpecMixed == Init /\ [][NextMixed]_vars

\* A connection after Connection::new and add_extensions with one enabled
\* extension.
InitExt ==
    /\ mode \in {"Client", "Server"}
    /\ wire = <<>>
    /\ state = St("Open", NoFrame, None)
    /\ call = "none"
    /\ ret = RNone
    /\ retOf = "none"
    /\ dropped = FALSE
    /\ nRecv = 0
    /\ nSend = 0
    /\ sendPc = "idle"
    /\ sendHdr = <<>>
    /\ sendData = <<>>
    /\ sendLog = <<>>
    /\ lastIn = NoFrame
    /\ rxData = <<>>
    /\ pingLog = <<>>
    /\ closeDone = FALSE
    /\ caIn = NoFrame
    /\ caOut = [done |-> FALSE, res |-> CloseAnswer(NoFrame)]
    /\ exts = <<[Extension(ExtDeflate) EXCEPT !.enabled = TRUE]>>
    /\ codec = [CodecDefault EXCEPT !.reserved_bits = ReservedBits(ExtDeflate)]
    /\ decLog = <<>>
    /\ hs = NoHandshake
    /\ hsIn = NoMessage
    /\ hsOut = NoResult

\* Receiving and closing with the extension installed.
NextExt ==
    \/ Poll(MaxRecv)
    \/ SinkClose(MaxRecv)

SpecExt == InitExt /\ [][NextExt]_vars

\* close_answer on its own: the Close frames it is given.
CloseCodes ==
    {0, 999, 1000, 1003, 1004, 1005, 1006, 1007, 1011, 1012, 1014, 1015,
     1016, 2999, 3000, 4999, 5000, 65535}

CloseReasons == {<<>>, <<65>>, <<200>>, <<195, 169>>}

CloseInputs ==
    {FrameNew("Close"),
     [FrameNew("Close") EXCEPT !.data = Some("Binary", <<>>)],
     [FrameNew("Close") EXCEPT !.data = Some("Binary", <<3>>)]}
    \cup {[FrameNew("Close") EXCEPT
              !.data = Some("Binary", BigEndian(c, 2) \o r)] :
          c \in CloseCodes, r \in CloseReasons}

InitCloseAnswer ==
    /\ mode = "Server"
    /\ wire = <<>>
    /\ state = St("Open", NoFrame, None)
    /\ call = "none"
    /\ ret = RNone
    /\ retOf = "none"
    /\ dropped = FALSE
    /\ nRecv = 0
    /\ nSend = 0
    /\ sendPc = "idle"
    /\ sendHdr = <<>>
    /\ sendData = <<>>
    /\ sendLog = <<>>
    /\ lastIn = NoFrame
    /\ rxData = <<>>
    /\ pingLog = <<>>
    /\ closeDone = FALSE
    /\ caIn \in CloseInputs
    /\ caOut = [done |-> FALSE, res |-> CloseAnswer(NoFrame)]
    /\ exts = <<>>
    /\ codec = CodecDefault
    /\ decLog = <<>>
    /\ hs = NoHandshake
    /\ hsIn = NoMessage
    /\ hsOut = NoResult

ApplyCloseAnswer ==
    /\ ~caOut.done
    /\ caOut' = [done |-> TRUE, res |-> CloseAnswer(caIn)]
    /\ UNCHANGED <<mode, wire, state, call, ret, retOf, dropped, nRecv, nSend,
                   sendPc, sendHdr, sendData, sendLog, lastIn, rxData,
                   pingLog, closeDone, caIn, exts, codec, decLog, hs, hsIn, hsOut>>

NextCloseAnswer == ApplyCloseAnswer

SpecCloseAnswer == InitCloseAnswer /\ [][NextCloseAnswer]_vars

\* ---- Properties ----

RECURSIVE Flatten(_)
Flatten(ss) == IF ss = <<>> THEN <<>> ELSE Head(ss) \o Flatten(Tail(ss))

IsSendChunk(c) == c.src \in {"send_header", "send_payload"}

SendChunks == SelectSeq(wire, IsSendChunk)

\* C1: send sets the MASK bit of the header and XORs the payload with the
\* 4-byte key carried in the header exactly when the mode is Client; in
\* Server mode the header has no key and the payload goes out as given.
\* Read off the bytes on the wire: the header is the (2i-1)-th chunk send
\* wrote, the payload the 2i-th.
C1_MaskIffClient ==
    \A i \in 1..Len(sendLog) :
        (2 * i - 1 <= Len(SendChunks)) =>
            LET hb == SendChunks[2 * i - 1].bytes
                data == sendLog[i].data
            IN  /\ (hb[2] >= 128) <=> (mode = "Client")
                /\ Len(hb) = IF mode = "Client" THEN 6 ELSE 2
                /\ (2 * i <= Len(SendChunks)) =>
                      LET pb == SendChunks[2 * i].bytes
                      IN  /\ Len(pb) = Len(data)
                          /\ \A j \in 1..Len(data) :
                                pb[j] = IF mode = "Client"
                                        THEN BitXor(data[j],
                                                    hb[3 + ((j - 1) % 4)])
                                        ELSE data[j]

C1_Witness ==
    /\ mode = "Client"
    /\ sendPc = "idle"
    /\ ret = RReady(None)
    /\ Len(sendLog) >= 1
    /\ Len(sendLog[1].data) > 4
    /\ Len(SendChunks) >= 2
    /\ SendChunks[2].bytes # sendLog[1].data

\* C2: as long as no write has failed, the bytes send has written are, in
\* call order, the header bytes of each frame followed by its payload bytes;
\* a send that has written its header and not yet its payload accounts for
\* the header only.
C2_WireIsConcatenation ==
    ~dropped =>
        LET done == IF sendPc = "idle" THEN Len(sendLog) ELSE Len(sendLog) - 1
            whole == [i \in 1..done |-> sendLog[i].hdr \o sendLog[i].out]
            part == IF sendPc = "payload" THEN sendHdr ELSE <<>>
        IN  Flatten([i \in 1..Len(SendChunks) |-> SendChunks[i].bytes])
                = Flatten(whole) \o part

C2_Witness ==
    /\ ~dropped
    /\ sendPc = "idle"
    /\ Len(sendLog) = 2
    /\ Len(SendChunks) = 4
    /\ sendLog[1].out # sendLog[2].out
    /\ sendLog[1].out # <<>>

ReplySrc == {"pong", "close_echo"}

SendSrc == {"send_header", "send_payload", "send_partial"}

C4_NoSendAfterClose ==
    \A i \in 1..Len(wire) : \A j \in 1..Len(wire) :
        (i < j /\ wire[i].src \in {"close", "close_echo"})
            => wire[j].src \notin SendSrc

\* The payload a peer reads from the bytes of one frame with a short
\* length: the bytes after the header, XORed with the key if the MASK bit
\* is set.
PayloadOf(bytes) ==
    LET masked == bytes[2] >= 128
        len == bytes[2] % 128
        off == IF masked THEN 6 ELSE 2
    IN  [j \in 1..len |->
            IF masked THEN BitXor(bytes[off + j], bytes[3 + ((j - 1) % 4)])
            ELSE bytes[off + j]]

ChunksOf(src) == {i \in 1..Len(wire) : wire[i].src = src}

InClosed == state.tag = "Closed"

\* C5: in Closed, a receive fails with the Closed error and the state does
\* not leave Closed.
C5_ReceiveInClosedFails ==
    [][(InClosed /\ retOf' = "poll")
          => (ret' = RErr("Closed") /\ state'.tag \in {"Closed", "None"})]_vars

IsFragmented(fs) ==
    /\ Len(fs) >= 2
    /\ fs[1].op \in {"Text", "Binary"}
    /\ \A i \in 2..Len(fs) : fs[i].op = "Continue"
    /\ \A i \in 1..Len(fs) : fs[i].fin <=> (i = Len(fs))

PayloadsOf(fs) == Flatten([i \in 1..Len(fs) |-> fs[i].data.bytes])

\* A turn of poll or close that takes a frame from the transport in Open.
TakesInOpen == state.tag = "Open" /\ nRecv' = nRecv + 1

\* C7: when the frame that completes a fragmented message is taken, and the
\* message is within the size limit, poll returns one message of the type of
\* the first frame whose payload is the payloads of the frames in the order
\* of their arrival; a frame that starts or goes on with a fragmented
\* message returns nothing.
C7_Reassembly ==
    [][(TakesInOpen /\ retOf' = "poll" /\ lastIn'.op \in DataOps)
          => LET fs == Append(rxData, lastIn')
             IN  /\ (IsFragmented(fs) /\ Len(PayloadsOf(fs)) <= MaxBufferSize)
                        => ret' = RReady(Some(fs[1].data.type, PayloadsOf(fs)))
                 /\ ~lastIn'.fin => ret'.kind \in {"Loop", "Err"}]_vars

C7_Witness ==
    /\ retOf = "poll"
    /\ ret = RReady(Some("Text", <<1, 3>>))
    /\ nRecv = 3
    /\ lastIn.op = "Continue"
    /\ pingLog = <<>>

\* C8: every Ping taken in Open is answered by one Pong with the payload of
\* the Ping, masked as the mode demands, the Pongs in the order of the Pings;
\* and while the Pong is written and flushed the fragment buffered so far is
\* kept as it was.
C8_PingDuringFragment ==
    /\ [](~dropped =>
            LET pongs == SelectSeq(wire, LAMBDA c : c.src = "pong")
                pending == IF state.tag = "AnswerPing" THEN 1 ELSE 0
            IN  /\ Len(pongs) + pending = Len(pingLog)
                /\ \A i \in 1..Len(pongs) :
                      /\ pongs[i].bytes[1] = 128 + 10
                      /\ PayloadOf(pongs[i].bytes) = pingLog[i]
                      /\ (pongs[i].bytes[2] >= 128) <=> (mode = "Client")
                /\ pending = 1 =>
                      /\ state.frame.op = "Pong"
                      /\ state.frame.data.bytes = pingLog[Len(pingLog)])
    /\ [][(/\ \/ TakesInOpen /\ lastIn'.op = "Ping"
              \/ state.tag \in {"AnswerPing", "Flush"}
           /\ retOf' = "poll"
           /\ ~dropped')
             => /\ state'.tag \in {"AnswerPing", "Flush", "Open"}
                /\ state'.buf = state.buf]_vars

\* A message delivered whole although a Ping came between its two frames.
C8_Witness ==
    /\ retOf = "poll"
    /\ ret = RReady(Some("Text", <<1, 3>>))
    /\ nRecv = 3
    /\ pingLog = <<<<7>>>>
    /\ Cardinality(ChunksOf("pong")) = 1

\* C9: in Open, a Continue frame with no fragment in progress, a Text or
\* Binary frame with a fragment in progress, and a frame with a reserved
\* opcode each make the operation fail with UnexpectedOpCode.
C9_UnexpectedOpCode ==
    [][(/\ TakesInOpen
        /\ \/ lastIn'.op = "Continue" /\ rxData = <<>>
           \/ lastIn'.op \in {"Text", "Binary"} /\ rxData # <<>>
           \/ lastIn'.op = "Reserved")
          => ret' = RErr("UnexpectedOpCode")]_vars

C9_Witness ==
    /\ ret = RErr("UnexpectedOpCode")
    /\ retOf = "poll"
    /\ lastIn.op = "Text"
    /\ nRecv = 2
    /\ rxData # <<>>
    /\ rxData[1].op = "Binary"

BodyOf(f) == IF f.data.some THEN f.data.bytes ELSE <<>>

\* C10: the answer to a Close frame has an empty body if the payload of the
\* incoming frame is shorter than 2 bytes; otherwise its body is 2 bytes: the
\* incoming code if that is in 1000..1003, 1007..1011, 1015 or 3000..4999,
\* and 1002 if it is not. (A reason that is not UTF-8 yields no answer.)
C10_CloseEcho ==
    (caOut.done /\ caOut.res.ok) =>
        LET p == BodyOf(caIn)
            code == 256 * p[1] + p[2]
            body == BodyOf(caOut.res.frame)
        IN  /\ caOut.res.frame.op = "Close"
            /\ IF Len(p) < 2 THEN body = <<>>
               ELSE IF code \in (1000..1003) \cup (1007..1011) \cup {1015}
                                  \cup (3000..4999)
                    THEN body = <<p[1], p[2]>>
                    ELSE body = <<3, 234>>

\* The code 1006 answered with 1002.
C10_Witness ==
    /\ caOut.done
    /\ caOut.res.ok
    /\ BodyOf(caIn) = <<3, 238, 65>>
    /\ BodyOf(caOut.res.frame) = <<3, 234>>

Echoes == ChunksOf("close_echo")

DeliversData == ret.kind = "Ready" /\ ret.val.some

\* C11: a Close frame taken in Open, with or without a fragment in progress,
\* is answered by one Close frame, written at once or held in AnswerClose
\* until the transport takes it; no second echo is ever written; once the
\* echo is written the state is Closing, Closed or taken for good, and from
\* the moment the Close frame is taken no message is delivered.
C11_CloseEchoThenClosed ==
    /\ [](~dropped =>
            /\ Cardinality(Echoes) <= 1
            /\ \A i \in Echoes : wire[i].bytes[1] = 128 + 8
            /\ state.tag = "AnswerClose" =>
                  (Echoes = {} /\ state.frame.op = "Close")
            /\ Echoes # {} => state.tag \in {"Closing", "Closed", "None"}
            /\ (Echoes # {} \/ state.tag = "AnswerClose") => ~DeliversData
            /\ (Echoes # {} /\ ret.kind = "Ready" /\ retOf = "poll")
                  => state.tag \in {"Closed", "None"})
    /\ [][(TakesInOpen /\ lastIn'.op = "Close" /\ ~dropped')
             => \/ state'.tag = "AnswerClose" /\ wire' = wire
                \/ /\ Len(wire') = Len(wire) + 1
                   /\ wire'[Len(wire')] =
                         Chunk("close_echo",
                               SetMask(CloseAnswer(lastIn').frame, ReplyMask))
                   /\ state'.tag \in {"Closing", "Closed"}]_vars

\* A Close frame came while a fragment was in progress: one echo, the end
\* of the stream returned, nothing of the fragment delivered.
C11_Witness ==
    /\ retOf = "poll"
    /\ ret = RReady(None)
    /\ nRecv = 2
    /\ rxData # <<>>
    /\ Cardinality(Echoes) = 1
    /\ state.tag = "None"

\* C12: no message longer than max_buffer_size is delivered.
C12_NoMessageTooLarge ==
    DeliversData => Len(ret.val.bytes) <= MaxBufferSize

\* C13: an extension's decode is called for the data of a final frame
\* only, that is, for a whole message.
C13_DecodeOnlyWholeMessages ==
    \A i \in 1..Len(decLog) : decLog[i].fin

KEY == <<50, 53, 56, 69, 65, 70, 65, 53, 45, 69, 57, 49, 52, 45, 52, 55, 68, 65, 45, 57, 53, 67, 65, 45, 67, 53, 65, 66, 48, 68, 67, 56, 53, 66, 49, 49>>

\* "Sec-WebSocket-Extensions" (handshake.rs:33)
SEC_WEBSOCKET_EXTENSIONS == <<83, 101, 99, 45, 87, 101, 98, 83, 111, 99, 107, 101, 116, 45, 69, 120, 116, 101, 110, 115, 105, 111, 110, 115>>

\* "Sec-WebSocket-Protocol" (handshake.rs:34)
SEC_WEBSOCKET_PROTOCOL == <<83, 101, 99, 45, 87, 101, 98, 83, 111, 99, 107, 101, 116, 45, 80, 114, 111, 116, 111, 99, 111, 108>>

\* The header names and tokens the decoders look for, as the source writes
\* them: "Upgrade", "Connection", "Location", "Sec-WebSocket-Accept", "Host",
\* "Sec-WebSocket-Version", "Sec-WebSocket-Key", "websocket", "upgrade", "13".
HdrUpgrade == <<85, 112, 103, 114, 97, 100, 101>>
HdrConnection == <<67, 111, 110, 110, 101, 99, 116, 105, 111, 110>>
HdrLocation == <<76, 111, 99, 97, 116, 105, 111, 110>>
HdrAccept == <<83, 101, 99, 45, 87, 101, 98, 83, 111, 99, 107, 101, 116, 45, 65, 99, 99, 101, 112, 116>>
HdrHost == <<72, 111, 115, 116>>
HdrVersion == <<83, 101, 99, 45, 87, 101, 98, 83, 111, 99, 107, 101, 116, 45, 86, 101, 114, 115, 105, 111, 110>>
HdrKey == <<83, 101, 99, 45, 87, 101, 98, 83, 111, 99, 107, 101, 116, 45, 75, 101, 121>>
TokWebsocket == <<119, 101, 98, 115, 111, 99, 107, 101, 116>>
TokUpgrade == <<117, 112, 103, 114, 97, 100, 101>>
Tok13 == <<49, 51>>

\* u8::to_ascii_lowercase
ToAsciiLowercase(c) == IF c >= 65 /\ c <= 90 THEN c + 32 ELSE c

\* str::eq_ignore_ascii_case
EqIgnoreAsciiCase(a, b) ==
    /\ Len(a) = Len(b)
    /\ \A i \in 1..Len(a) : ToAsciiLowercase(a[i]) = ToAsciiLowercase(b[i])

RECURSIVE Split(_, _)
\* str::split(sep): the pieces between the separators, in order; a string
\* without separator is its only piece.
Split(s, sep) ==
    IF \A i \in 1..Len(s) : s[i] # sep THEN <<s>>
    ELSE LET k == CHOOSE i \in 1..Len(s) :
                      s[i] = sep /\ \A j \in 1..(i - 1) : s[j] # sep
         IN  <<SubSeq(s, 1, k - 1)>> \o Split(SubSeq(s, k + 1, Len(s)), sep)

\* char::is_whitespace, on ASCII
IsWhitespace(c) == c \in {9, 10, 11, 12, 13, 32}

RECURSIVE Trim(_)
\* str::trim
Trim(s) ==
    IF s = <<>> THEN s
    ELSE IF IsWhitespace(s[1]) THEN Trim(Tail(s))
    ELSE IF IsWhitespace(s[Len(s)]) THEN Trim(SubSeq(s, 1, Len(s) - 1))
    ELSE s

\* httparse::Header { name, value }
Header(n, v) == [name |-> n, value |-> v]

\* headers.iter().filter(|h| h.name.eq_ignore_ascii_case(name))
WithName(headers, name) ==
    SelectSeq(headers, LAMBDA h : EqIgnoreAsciiCase(h.name, name))

\* Result values of the handshake functions: Err(Error::..), with the header
\* name some errors carry; Ok(Parsing::Done { value, offset });
\* Ok(Parsing::NeedMore(..)).
NoValue == [tag |-> "None"]
HsErr(e, n) ==
    [kind |-> "Err", err |-> e, name |-> n, value |-> NoValue, offset |-> 0]
Done(v, off) ==
    [kind |-> "Done", err |-> "", name |-> <<>>, value |-> v, offset |-> off]
NeedMore ==
    [kind |-> "NeedMore", err |-> "", name |-> <<>>, value |-> NoValue,
     offset |-> 0]
\* Ok(()) of a helper
OkUnit == [kind |-> "Ok", err |-> "", name |-> <<>>, value |-> NoValue,
           offset |-> 0]

\* .split(',').find(|v| v.trim().eq_ignore_ascii_case(ours)).is_some()
HasToken(value, ours) ==
    LET parts == Split(value, 44)
    IN  \E i \in 1..Len(parts) : EqIgnoreAsciiCase(Trim(parts[i]), ours)

RECURSIVE ExpectFoldLastWins(_, _, _)
\* The fold without its first test: every header of the name replaces the
\* result, a match found earlier included.
ExpectFoldLastWins(hdrs, ours, result) ==
    IF hdrs = <<>> THEN result
    ELSE IF ~IsUtf8(Head(hdrs).value)
         THEN ExpectFoldLastWins(Tail(hdrs), ours, "Utf8")
    ELSE IF HasToken(Head(hdrs).value, ours)
         THEN ExpectFoldLastWins(Tail(hdrs), ours, "Match")
    ELSE ExpectFoldLastWins(Tail(hdrs), ours, "Name")

RECURSIVE ExpectFold(_, _, _)
\* The fold of expect_ascii_header over the headers of the name: the State
\* reached (Init, Name, Match), or "Utf8" for Err(Error::Utf8). A header is
\* looked at unless the result so far is Ok(State::Match); whatever else the
\* result was, it is replaced.
ExpectFold(hdrs, ours, result) ==
    IF hdrs = <<>> THEN result
    ELSE IF result = "Match" THEN ExpectFold(Tail(hdrs), ours, result)
    ELSE IF ~IsUtf8(Head(hdrs).value)
         THEN ExpectFold(Tail(hdrs), ours, "Utf8")
    ELSE IF HasToken(Head(hdrs).value, ours)
         THEN ExpectFold(Tail(hdrs), ours, "Match")
    ELSE ExpectFold(Tail(hdrs), ours, "Name")

\* expect_ascii_header(headers, name, ours)
ExpectAsciiHeader(headers, name, ours) ==
    LET st == ExpectFold(WithName(headers, name), ours, "Init")
    IN  CASE st = "Init" -> HsErr("HeaderNotFound", name)
          [] st = "Name" -> HsErr("UnexpectedHeader", name)
          [] st = "Utf8" -> HsErr("Utf8", <<>>)
          [] OTHER -> OkUnit

\* with_first_header(headers, name, f): whether there is a header of the
\* name, and the value f is applied to.
HasHeader(headers, name) == WithName(headers, name) # <<>>
FirstHeader(headers, name) == Head(WithName(headers, name)).value

\* The index in the base64 alphabet (A-Z a-z 0-9 + /) as its ASCII code.
Base64Char(i) ==
    IF i < 26 THEN 65 + i
    ELSE IF i < 52 THEN 97 + (i - 26)
    ELSE IF i < 62 THEN 48 + (i - 52)
    ELSE IF i = 62 THEN 43
    ELSE 47

RECURSIVE Base64Encode(_)
\* base64::encode, base64::STANDARD: three bytes to four characters, the
\* last group padded with '='.
Base64Encode(bs) ==
    IF Len(bs) = 0 THEN <<>>
    ELSE IF Len(bs) = 1
         THEN <<Base64Char(bs[1] \div 4), Base64Char((bs[1] % 4) * 16),
                61, 61>>
    ELSE IF Len(bs) = 2
         THEN <<Base64Char(bs[1] \div 4),
                Base64Char((bs[1] % 4) * 16 + bs[2] \div 16),
                Base64Char((bs[2] % 16) * 4), 61>>
    ELSE <<Base64Char(bs[1] \div 4),
           Base64Char((bs[1] % 4) * 16 + bs[2] \div 16),
           Base64Char((bs[2] % 16) * 4 + bs[3] \div 64),
           Base64Char(bs[3] % 64)>>
         \o Base64Encode(SubSeq(bs, 4, Len(bs)))

RECURSIVE WeightedSum(_, _, _)
\* The sum of (Len(bs) - i + 1) * bs[i] for i in lo..hi when weighted, of
\* bs[i] when not, by halving the range.
WeightedSum(bs, rng, weighted) ==
    IF rng[1] > rng[2] THEN 0
    ELSE IF rng[1] = rng[2]
         THEN bs[rng[1]] * (IF weighted THEN Len(bs) - rng[1] + 1 ELSE 1)
    ELSE LET mid == (rng[1] + rng[2]) \div 2
         IN  WeightedSum(bs, <<rng[1], mid>>, weighted)
             + WeightedSum(bs, <<mid + 1, rng[2]>>, weighted)

\* Sha1::new(), update(..), digest().bytes(): the digest of the bytes. The
\* sha1 crate is a library; what the handshake relies on is that the digest
\* is a function of all the bytes fed to it, which the two sums of a
\* Fletcher checksum and the length keep.
Sha1Digest(bs) ==
    <<WeightedSum(bs, <<1, Len(bs)>>, FALSE) % 255,
      WeightedSum(bs, <<1, Len(bs)>>, TRUE) % 255,
      Len(bs) % 256>>

\* base64(sha1(nonce || KEY)): the value of Sec-WebSocket-Accept
AcceptValue(nonce) == Base64Encode(Sha1Digest(nonce \o KEY))

\* let nonce: [u8; 16] = rand::random(): the values drawn in the model.
RawNonces ==
    {<<0, 0, 0, 0, 0, 0, 0, 0, 0, 0, 0, 0, 0, 0, 0, 0>>,
     <<222, 173, 190, 239, 1, 2, 3, 4, 5, 6, 7, 8, 9, 10, 11, 255>>}

\* The protocol names and extension names that occur.
ProtoChat == <<99, 104, 97, 116>>
ProtoMqtt == <<109, 113, 116, 116>>
ProtocolNames == {ProtoChat, ProtoMqtt}
ExtensionNames == {ExtDeflate}

\* Client::new (nonce: [0; 32], nonce_offset: 0) and ClientHandshake::new
\* (which draws the nonce at once).
ClientNew ==
    [role |-> "Client", impl |-> "Client", pc |-> "new", nonce |-> <<>>,
     protocols |-> <<>>, extensions |-> <<>>]
ClientHandshakeNew(raw) ==
    [role |-> "Client", impl |-> "ClientHandshake", pc |-> "new",
     nonce |-> Base64Encode(raw), protocols |-> <<>>, extensions |-> <<>>]

\* ServerResponse::Accepted / Redirect / Rejected; Option<String> as a
\* record.
OptNone == [some |-> FALSE, val |-> <<>>]
OptSome(v) == [some |-> TRUE, val |-> v]
Accepted(p) == [tag |-> "Accepted", protocol |-> p]
Redirect(c, l) == [tag |-> "Redirect", status_code |-> c, location |-> l]
Rejected(c) == [tag |-> "Rejected", code |-> c]

\* An outcome of a decoder: its result and the extensions as it leaves them.
HsOutcome(r, es) == [res |-> r, exts |-> es]

RECURSIVE ConfigureParts(_, _)
\* The loop of configure_extensions over line.split(','): the name is the
\* trimmed first piece of e.split(';'); the first extension of that name is
\* configured, which may fail (Extension::configure is not in src/); a name
\* no extension has is passed over.
ConfigureParts(es, parts) ==
    IF parts = <<>> THEN {HsOutcome(OkUnit, es)}
    ELSE LET name == Trim(Head(Split(Head(parts), 59)))
             idx == {i \in 1..Len(es) : EqIgnoreAsciiCase(es[i].name, name)}
         IN  IF idx = {} THEN ConfigureParts(es, Tail(parts))
             ELSE LET i == CHOOSE j \in idx : \A k \in idx : j <= k
                  IN  {HsOutcome(HsErr("Extension", <<>>), es)}
                      \cup ConfigureParts([es EXCEPT ![i].enabled = TRUE],
                                          Tail(parts))

\* configure_extensions(extensions, line)
ConfigureExtensions(es, line) == ConfigureParts(es, Split(line, 44))

RECURSIVE ConfigureAll(_, _)
\* for h in headers named Sec-WebSocket-Extensions:
\*     configure_extensions(&mut self.extensions, from_utf8(h.value)?)?
ConfigureAll(es, hdrs) ==
    IF hdrs = <<>> THEN {HsOutcome(OkUnit, es)}
    ELSE IF ~IsUtf8(Head(hdrs).value) THEN {HsOutcome(HsErr("Utf8", <<>>), es)}
    ELSE UNION {IF o.res.kind = "Err" THEN {o}
                ELSE ConfigureAll(o.exts, Tail(hdrs))
                : o \in ConfigureExtensions(es, Head(hdrs).value)}

\* A match on Sec-WebSocket-Protocol that takes whatever the server names.
SelectProtocolUnchecked(h, headers) ==
    IF ~HasHeader(headers, SEC_WEBSOCKET_PROTOCOL) THEN Done(OptNone, 0)
    ELSE Done(OptSome(FirstHeader(headers, SEC_WEBSOCKET_PROTOCOL)), 0)

\* The match on Sec-WebSocket-Protocol of the client: the first header of
\* that name, its value compared byte for byte with the protocols added.
SelectProtocol(h, headers) ==
    IF ~HasHeader(headers, SEC_WEBSOCKET_PROTOCOL) THEN Done(OptNone, 0)
    ELSE LET tp == FirstHeader(headers, SEC_WEBSOCKET_PROTOCOL)
             idx == {i \in 1..Len(h.protocols) : h.protocols[i] = tp}
         IN  IF idx = {} THEN HsErr("UnsolicitedProtocol", <<>>)
             ELSE Done(OptSome(h.protocols[CHOOSE j \in idx :
                                               \A k \in idx : j <= k]), 0)

\* The arm `other` of the match on response.code: Client yields
\* Rejected { code } (client.rs:178-182), ClientHandshake fails with
\* UnexpectedStatusCode (handshake.rs:142).
OtherStatus(h, msg) ==
    IF h.impl = "Client" THEN Done(Rejected(msg.code), msg.offset)
    ELSE HsErr("UnexpectedStatusCode", <<>>)

\* A check of Sec-WebSocket-Accept that takes the accept value of any nonce:
\* what a digest over KEY alone, or a skipped comparison, would amount to.
AcceptMatchesAnyNonce(h, theirs) ==
    \E r \in RawNonces : AcceptValue(Base64Encode(r)) = theirs

\* The check of Sec-WebSocket-Accept against base64(sha1(nonce || KEY)).
AcceptMatches(h, theirs) == AcceptValue(h.nonce) = theirs

\* The part of decode_response for status 101.
DecodeSwitching(h, msg) ==
    LET upg == ExpectAsciiHeader(msg.headers, HdrUpgrade, TokWebsocket)
        con == ExpectAsciiHeader(msg.headers, HdrConnection, TokUpgrade)
        sel == SelectProtocol(h, msg.headers)
    IN  IF upg.kind = "Err" THEN {HsOutcome(upg, h.extensions)}
        ELSE IF con.kind = "Err" THEN {HsOutcome(con, h.extensions)}
        ELSE IF ~HasHeader(msg.headers, HdrAccept)
             THEN {HsOutcome(HsErr("HeaderNotFound", HdrAccept), h.extensions)}
        ELSE IF ~AcceptMatches(h, FirstHeader(msg.headers, HdrAccept))
             THEN {HsOutcome(HsErr("InvalidSecWebSocketAccept", <<>>),
                             h.extensions)}
        ELSE {IF o.res.kind = "Err" THEN o
              ELSE IF sel.kind = "Err" THEN HsOutcome(sel, o.exts)
              ELSE HsOutcome(Done(Accepted(sel.value),
                                  IF h.impl = "Client" THEN 0
                                  ELSE msg.offset), o.exts)
              : o \in ConfigureAll(h.extensions,
                                   WithName(msg.headers,
                                            SEC_WEBSOCKET_EXTENSIONS))}

\* The status codes of a redirect with 308 left out: 301 ..= 303, 307.
IsRedirectWithout308(code) == (code >= 301 /\ code <= 303) \/ code = 307

\* The status codes of a redirect: 301 ..= 303, 307, 308.
IsRedirect(code) == (code >= 301 /\ code <= 303) \/ code = 307 \/ code = 308

\* Client::decode_response (handshake/client.rs:154-225) and
\* ClientHandshake::decode_response (handshake.rs:119-184), which differ in
\* the arm `other` and in the offset of Accepted: the outcomes on a parsed
\* response.
DecodeResponse(h, msg) ==
    IF msg.parse = "Partial" THEN {HsOutcome(NeedMore, h.extensions)}
    ELSE IF msg.parse = "Error"
         THEN {HsOutcome(HsErr("Http", <<>>), h.extensions)}
    ELSE IF msg.version # 1
         THEN {HsOutcome(HsErr("UnsupportedHttpVersion", <<>>), h.extensions)}
    ELSE IF msg.code = 101 THEN DecodeSwitching(h, msg)
    ELSE IF IsRedirect(msg.code)
         THEN {HsOutcome(
                  IF ~HasHeader(msg.headers, HdrLocation)
                  THEN HsErr("HeaderNotFound", HdrLocation)
                  ELSE IF ~IsUtf8(FirstHeader(msg.headers, HdrLocation))
                       THEN HsErr("Utf8", <<>>)
                  ELSE Done(Redirect(msg.code,
                                     FirstHeader(msg.headers, HdrLocation)),
                            msg.offset),
                  h.extensions)}
    ELSE {HsOutcome(OtherStatus(h, msg), h.extensions)}

RECURSIVE Digits(_)
\* A number in decimal, as ASCII.
Digits(n) ==
    IF n < 10 THEN <<48 + n>> ELSE Digits(n \div 10) \o <<48 + (n % 10)>>

RECURSIVE RenderHeaders(_)
\* "name: value\r\n" for each header, then the empty line that ends the head.
RenderHeaders(hdrs) ==
    IF hdrs = <<>> THEN <<13, 10>>
    ELSE Head(hdrs).name \o <<58, 32>> \o Head(hdrs).value \o <<13, 10>>
         \o RenderHeaders(Tail(hdrs))

\* The bytes of the head of an HTTP response: "HTTP/1.v code \r\n", headers.
RenderResponse(v, c, hdrs) ==
    <<72, 84, 84, 80, 47, 49, 46>> \o Digits(v) \o <<32>> \o Digits(c) \o <<32, 13, 10>>
    \o RenderHeaders(hdrs)

\* What response.parse(buf) makes of the bytes received: Status::Complete
\* with the version, code, headers and the length of the head;
\* Status::Partial; or an error of the parser.
Response(v, c, hdrs) ==
    [parse |-> "Complete", version |-> v, code |-> c, headers |-> hdrs,
     offset |-> Len(RenderResponse(v, c, hdrs))]
PartialMessage ==
    [parse |-> "Partial", version |-> 1, code |-> 0, headers |-> <<>>,
     offset |-> 0]
BadMessage ==
    [parse |-> "Error", version |-> 1, code |-> 0, headers |-> <<>>,
     offset |-> 0]

\* The headers a server's response may carry, by name: none, one, or two
\* of the name, in varied case and with lists of tokens.
UpgradeChoices ==
    {<<>>,
     <<Header(HdrUpgrade, <<104, 50, 99>>)>>,
     <<Header(<<117, 112, 103, 114, 97, 100, 101>>, <<104, 50, 99>>), Header(<<85, 80, 71, 82, 65, 68, 69>>, <<104, 50, 99, 44, 32, 87, 101, 98, 83, 111, 99, 107, 101, 116>>)>>}
ConnectionChoices ==
    {<<>>,
     <<Header(HdrConnection, <<99, 108, 111, 115, 101>>)>>,
     <<Header(HdrConnection, <<107, 101, 101, 112, 45, 97, 108, 105, 118, 101, 44, 32, 85, 112, 103, 114, 97, 100, 101>>)>>}
AcceptChoices ==
    {<<>>} \cup
    {<<Header(HdrAccept, AcceptValue(Base64Encode(r)))>> : r \in RawNonces}
LocationChoices ==
    {<<>>,
     <<Header(HdrLocation, <<47, 120>>)>>,
     <<Header(<<108, 111, 99, 97, 116, 105, 111, 110>>, <<47, 120>>), Header(HdrLocation, <<47, 121>>)>>}
ExtensionChoices ==
    {<<>>,
     <<Header(SEC_WEBSOCKET_EXTENSIONS,
              <<80, 101, 114, 109, 101, 115, 115, 97, 103, 101, 45, 68, 101, 102, 108, 97, 116, 101, 59, 32, 115, 101, 114, 118, 101, 114, 95, 109, 97, 120, 95, 119, 105, 110, 100, 111, 119, 95, 98, 105, 116, 115, 61, 49, 48>>)>>,
     <<Header(SEC_WEBSOCKET_EXTENSIONS, ExtSnappy)>>}
ProtocolChoices ==
    {<<>>,
     <<Header(SEC_WEBSOCKET_PROTOCOL, ProtoChat)>>,
     <<Header(SEC_WEBSOCKET_PROTOCOL, ProtoMqtt)>>}

\* The status codes tried: 101, the redirects, and others around them.
StatusCodes == {101, 200, 300, 301, 302, 303, 304, 307, 308}

\* The responses given to the client: every 101 response over the header
\* choices; for the other codes the headers a redirect looks at or is said
\* to ignore; HTTP/1.0 responses; an incomplete and an unparsable one.
Responses ==
    {Response(1, 101, up \o co \o ac \o ex \o pr) :
        up \in UpgradeChoices, co \in ConnectionChoices, ac \in AcceptChoices,
        ex \in ExtensionChoices, pr \in ProtocolChoices}
    \cup {Response(1, c, up \o ac \o lo) :
        c \in StatusCodes \ {101}, up \in UpgradeChoices,
        ac \in AcceptChoices, lo \in LocationChoices}
    \cup {Response(0, c, <<>>) : c \in StatusCodes}
    \cup {PartialMessage, BadMessage}

\* The connection is not touched by a handshake.
ConnUnchanged ==
    UNCHANGED <<mode, wire, state, call, ret, retOf, dropped, nRecv, nSend,
                sendPc, sendHdr, sendData, sendLog, lastIn, rxData, pingLog,
                closeDone, caIn, caOut, exts, codec, decLog>>

\* add_protocol of Client, ClientHandshake and Server
AddProtocol(p) ==
    /\ hs.role \in {"Client", "Server"}
    /\ hs.pc = "new"
    /\ Len(hs.protocols) < MaxProtocols
    /\ hs' = [hs EXCEPT !.protocols = Append(@, p)]
    /\ UNCHANGED <<hsIn, hsOut>>
    /\ ConnUnchanged

\* add_extension of Client, ClientHandshake and Server
AddExtension(n) ==
    /\ hs.role \in {"Client", "Server"}
    /\ hs.pc = "new"
    /\ Len(hs.extensions) < MaxExtensions
    /\ hs' = [hs EXCEPT !.extensions = Append(@, Extension(n))]
    /\ UNCHANGED <<hsIn, hsOut>>
    /\ ConnUnchanged

\* encode_request: Client draws the nonce here (client.rs:127-128),
\* ClientHandshake has drawn it in new (handshake.rs:52-54).
EncodeRequest(raw) ==
    /\ hs.role = "Client"
    /\ hs.pc = "new"
    /\ hs' = [hs EXCEPT !.pc = "sent",
                        !.nonce = IF hs.impl = "Client"
                                  THEN Base64Encode(raw) ELSE @]
    /\ UNCHANGED <<hsIn, hsOut>>
    /\ ConnUnchanged

\* decode_response on what has been received; after NeedMore the loop of
\* handshake() reads on and decodes again (client.rs:101-110).
ClientDecode(msg) ==
    /\ hs.role = "Client"
    /\ hs.pc = "sent"
    /\ \E o \in DecodeResponse(hs, msg) :
          /\ hsIn' = msg
          /\ hsOut' = o.res
          /\ hs' = [hs EXCEPT !.extensions = o.exts,
                              !.pc = IF o.res.kind = "NeedMore"
                                     THEN "sent" ELSE "done"]
    /\ ConnUnchanged

InitClient ==
    /\ mode = "Client"
    /\ wire = <<>>
    /\ state = St("Open", NoFrame, None)
    /\ call = "none"
    /\ ret = RNone
    /\ retOf = "none"
    /\ dropped = FALSE
    /\ nRecv = 0
    /\ nSend = 0
    /\ sendPc = "idle"
    /\ sendHdr = <<>>
    /\ sendData = <<>>
    /\ sendLog = <<>>
    /\ lastIn = NoFrame
    /\ rxData = <<>>
    /\ pingLog = <<>>
    /\ closeDone = FALSE
    /\ caIn = NoFrame
    /\ caOut = [done |-> FALSE, res |-> CloseAnswer(NoFrame)]
    /\ exts = <<>>
    /\ codec = CodecDefault
    /\ decLog = <<>>
    /\ hs \in {ClientNew} \cup {ClientHandshakeNew(r) : r \in RawNonces}
    /\ hsIn = NoMessage
    /\ hsOut = NoResult

NextClient ==
    \/ \E p \in ProtocolNames : AddProtocol(p)
    \/ \E n \in ExtensionNames : AddExtension(n)
    \/ \E raw \in RawNonces : EncodeRequest(raw)
    \/ \E msg \in Responses : ClientDecode(msg)

\* The client's side of a handshake: protocols and extensions added, the
\* request encoded, a response decoded.
SpecClient == InitClient /\ [][NextClient]_vars

\* Server::new
ServerNew ==
    [role |-> "Server", pc |-> "new", protocols |-> <<>>, extensions |-> <<>>]

\* ClientRequest { ws_key, protocols }
ClientRequest(k, ps) == [tag |-> "ClientRequest", ws_key |-> k, protocols |-> ps]

\* "GET" (server.rs:141)
MethodGet == <<71, 69, 84>>

\* The checks of the request line with the version looked at first.
CheckRequestLineVersionFirst(req) ==
    IF req.version # 1 THEN HsErr("UnsupportedHttpVersion", <<>>)
    ELSE IF req.method # MethodGet THEN HsErr("InvalidRequestMethod", <<>>)
    ELSE OkUnit

\* request.method != Some("GET"), then request.version != Some(1)
CheckRequestLine(req) ==
    IF req.method # MethodGet THEN HsErr("InvalidRequestMethod", <<>>)
    ELSE IF req.version # 1 THEN HsErr("UnsupportedHttpVersion", <<>>)
    ELSE OkUnit

\* The protocols of the request the server supports: the values of the
\* Sec-WebSocket-Protocol headers that equal, byte for byte, a protocol
\* added to the server, in the order of the headers.
OfferedAndSupported(h, headers) ==
    LET hdrs == SelectSeq(WithName(headers, SEC_WEBSOCKET_PROTOCOL),
                          LAMBDA p : \E i \in 1..Len(h.protocols) :
                                         h.protocols[i] = p.value)
    IN  [i \in 1..Len(hdrs) |-> hdrs[i].value]

\* Server::decode_request (handshake/server.rs:131-175): the outcomes on a
\* parsed request.
DecodeRequest(h, req) ==
    LET line == CheckRequestLine(req)
        upg == ExpectAsciiHeader(req.headers, HdrUpgrade, TokWebsocket)
        con == ExpectAsciiHeader(req.headers, HdrConnection, TokUpgrade)
        ver == ExpectAsciiHeader(req.headers, HdrVersion, Tok13)
    IN  IF req.parse = "Partial" THEN {HsOutcome(NeedMore, h.extensions)}
        ELSE IF req.parse = "Error"
             THEN {HsOutcome(HsErr("Http", <<>>), h.extensions)}
        ELSE IF line.kind = "Err" THEN {HsOutcome(line, h.extensions)}
        ELSE IF ~HasHeader(req.headers, HdrHost)
             THEN {HsOutcome(HsErr("HeaderNotFound", HdrHost), h.extensions)}
        ELSE IF upg.kind = "Err" THEN {HsOutcome(upg, h.extensions)}
        ELSE IF con.kind = "Err" THEN {HsOutcome(con, h.extensions)}
        ELSE IF ver.kind = "Err" THEN {HsOutcome(ver, h.extensions)}
        ELSE IF ~HasHeader(req.headers, HdrKey)
             THEN {HsOutcome(HsErr("HeaderNotFound", HdrKey), h.extensions)}
        ELSE {IF o.res.kind = "Err" THEN o
              ELSE HsOutcome(
                       Done(ClientRequest(FirstHeader(req.headers, HdrKey),
                                          OfferedAndSupported(h, req.headers)),
                            req.offset),
                       o.exts)
              : o \in ConfigureAll(h.extensions,
                                   WithName(req.headers,
                                            SEC_WEBSOCKET_EXTENSIONS))}

\* The bytes of the head of an HTTP request: "METHOD / HTTP/1.v\r\n", headers.
RenderRequest(m, v, hdrs) ==
    m \o <<32, 47, 32, 72, 84, 84, 80, 47, 49, 46>> \o Digits(v) \o <<13, 10>> \o RenderHeaders(hdrs)

\* What request.parse(buf) makes of the bytes received (Status::Complete).
Request(m, v, hdrs) ==
    [parse |-> "Complete", method |-> m, version |-> v, headers |-> hdrs,
     offset |-> Len(RenderRequest(m, v, hdrs))]
PartialRequest ==
    [parse |-> "Partial", method |-> <<>>, version |-> 1, headers |-> <<>>,
     offset |-> 0]
BadRequest ==
    [parse |-> "Error", method |-> <<>>, version |-> 1, headers |-> <<>>,
     offset |-> 0]

\* The headers a client's request may carry, by name.
HostChoices == {<<>>, <<Header(HdrHost, <<101, 120, 97, 109, 112, 108, 101, 46, 111, 114, 103>>)>>}
VersionChoices ==
    {<<>>,
     <<Header(HdrVersion, <<56>>)>>,
     <<Header(HdrVersion, <<56, 44, 32, 49, 51>>)>>}
KeyChoices ==
    {<<>>} \cup {<<Header(HdrKey, Base64Encode(r))>> : r \in RawNonces}
OfferedExtensionChoices ==
    {<<>>,
     <<Header(SEC_WEBSOCKET_EXTENSIONS,
              <<112, 101, 114, 109, 101, 115, 115, 97, 103, 101, 45, 100, 101, 102, 108, 97, 116, 101, 59, 32, 99, 108, 105, 101, 110, 116, 95, 109, 97, 120, 95, 119, 105, 110, 100, 111, 119, 95, 98, 105, 116, 115>>)>>,
     <<Header(SEC_WEBSOCKET_EXTENSIONS, ExtSnappy)>>}
OfferedProtocolChoices ==
    {<<>>,
     <<Header(SEC_WEBSOCKET_PROTOCOL, ProtoChat)>>,
     <<Header(SEC_WEBSOCKET_PROTOCOL, ProtoMqtt),
       Header(<<115, 101, 99, 45, 119, 101, 98, 115, 111, 99, 107, 101, 116, 45, 112, 114, 111, 116, 111, 99, 111, 108>>, ProtoChat)>>}

\* A request with everything the server asks for.
GoodHeaders ==
    <<Header(HdrHost, <<101, 120, 97, 109, 112, 108, 101, 46, 111, 114, 103>>), Header(HdrUpgrade, TokWebsocket),
      Header(HdrConnection, <<85, 112, 103, 114, 97, 100, 101>>), Header(HdrVersion, Tok13),
      Header(HdrKey, Base64Encode(<<0, 0, 0, 0, 0, 0, 0, 0,
                                    0, 0, 0, 0, 0, 0, 0, 0>>))>>

\* The requests given to the server: every GET request over HTTP/1.1 over
\* the header choices; requests of other methods and of HTTP/1.0, with the
\* headers in order and without headers; an incomplete and an unparsable
\* one.
Requests ==
    {Request(MethodGet, 1, ho \o up \o co \o ve \o ke \o ex \o pr) :
        ho \in HostChoices, up \in UpgradeChoices, co \in ConnectionChoices,
        ve \in VersionChoices, ke \in KeyChoices,
        ex \in OfferedExtensionChoices, pr \in OfferedProtocolChoices}
    \cup {Request(m, v, hdrs) :
        m \in {MethodGet, <<80, 79, 83, 84>>, <<103, 101, 116>>}, v \in {0, 1},
        hdrs \in {<<>>, GoodHeaders}}
    \cup {PartialRequest, BadRequest}

\* decode_request on what has been received; after NeedMore the loop of
\* receive_request reads on and decodes again (server.rs:75-106).
ServerDecode(req) ==
    /\ hs.role = "Server"
    /\ hs.pc \in {"new", "reading"}
    /\ \E o \in DecodeRequest(hs, req) :
          /\ hsIn' = req
          /\ hsOut' = o.res
          /\ hs' = [hs EXCEPT !.extensions = o.exts,
                              !.pc = IF o.res.kind = "NeedMore"
                                     THEN "reading" ELSE "done"]
    /\ ConnUnchanged

InitServer ==
    /\ mode = "Server"
    /\ wire = <<>>
    /\ state = St("Open", NoFrame, None)
    /\ call = "none"
    /\ ret = RNone
    /\ retOf = "none"
    /\ dropped = FALSE
    /\ nRecv = 0
    /\ nSend = 0
    /\ sendPc = "idle"
    /\ sendHdr = <<>>
    /\ sendData = <<>>
    /\ sendLog = <<>>
    /\ lastIn = NoFrame
    /\ rxData = <<>>
    /\ pingLog = <<>>
    /\ closeDone = FALSE
    /\ caIn = NoFrame
    /\ caOut = [done |-> FALSE, res |-> CloseAnswer(NoFrame)]
    /\ exts = <<>>
    /\ codec = CodecDefault
    /\ decLog = <<>>
    /\ hs = ServerNew
    /\ hsIn = NoMessage
    /\ hsOut = NoResult

NextServer ==
    \/ \E p \in ProtocolNames : AddProtocol(p)
    \/ \E n \in ExtensionNames : AddExtension(n)
    \/ \E req \in Requests : ServerDecode(req)

\* The server's side of a handshake up to the decoded request.
SpecServer == InitServer /\ [][NextServer]_vars

\* ------------------------------------------- expect_ascii_header by itself

\* The headers of the test header_match, a header whose name differs in case
\* and has blanks around its tokens, and two whose value is not UTF-8.
ExpectHeaderPool ==
    { Header(<<102, 111, 111>>, <<97, 44, 98>>), Header(<<102, 111, 111>>, <<120>>),
      Header(<<102, 111, 111>>, <<121, 44, 32, 122, 44, 32, 97>>), Header(<<70, 79, 79>>, <<32, 66, 32, 44, 32, 67, 32>>),
      Header(<<98, 97, 114>>, <<120, 120, 120>>),
      Header(<<102, 111, 111>>, <<255>>), Header(<<102, 111, 111>>, <<97, 44, 255>>) }
RECURSIVE HeaderLists(_)
\* The header lists of at most n headers of the pool.
HeaderLists(n) ==
    IF n = 0 THEN {<<>>}
    ELSE HeaderLists(n - 1)
         \cup {Append(l, x) : l \in {m \in HeaderLists(n - 1) : Len(m) = n - 1},
                               x \in ExpectHeaderPool}
ExpectNames == {<<102, 111, 111>>, <<98, 97, 114>>, <<63, 63, 63>>}
ExpectTokens == {<<97>>, <<98>>, <<122>>, <<88, 88, 88>>, <<63, 63, 63>>}
ExpectInputs ==
    [parse : {"Headers"}, headers : HeaderLists(MaxHeaders),
     name : ExpectNames, ours : ExpectTokens]

\* A call of expect_ascii_header on the drawn headers, name and token.
ExpectHeader ==
    /\ hs.role = "Expect" /\ hs.pc = "new"
    /\ hsOut' = ExpectAsciiHeader(hsIn.headers, hsIn.name, hsIn.ours)
    /\ hs' = [hs EXCEPT !.pc = "done"]
    /\ UNCHANGED hsIn
    /\ ConnUnchanged

\* The connection's variables while a handshake, or a function by itself, is
\* all there is.
NoConnection ==
    /\ wire = <<>>
    /\ state = St("Open", NoFrame, None)
    /\ call = "none"
    /\ ret = RNone
    /\ retOf = "none"
    /\ dropped = FALSE
    /\ nRecv = 0
    /\ nSend = 0
    /\ sendPc = "idle"
    /\ sendHdr = <<>>
    /\ sendData = <<>>
    /\ sendLog = <<>>
    /\ lastIn = NoFrame
    /\ rxData = <<>>
    /\ pingLog = <<>>
    /\ closeDone = FALSE
    /\ caIn = NoFrame
    /\ caOut = [done |-> FALSE, res |-> CloseAnswer(NoFrame)]
    /\ exts = <<>>
    /\ codec = CodecDefault
    /\ decLog = <<>>

InitExpect ==
    /\ mode = "Server"
    /\ NoConnection
    /\ hs = [role |-> "Expect", pc |-> "new"]
    /\ hsIn \in ExpectInputs
    /\ hsOut = NoResult

\* expect_ascii_header applied to header lists.
SpecExpect == InitExpect /\ [][ExpectHeader]_vars

\* ------------------------------------- a client and a server hand in hand

RECURSIVE Join(_, _)
\* The pieces with sep between them.
Join(pieces, sep) ==
    IF pieces = <<>> THEN <<>>
    ELSE IF Len(pieces) = 1 THEN pieces[1]
    ELSE pieces[1] \o sep \o Join(Tail(pieces), sep)

\* append_extensions: one Sec-WebSocket-Extensions header with the names
\* (Extension::params is not in src/: no parameters) joined by ", ", or no
\* header when there is no extension.
AppendExtensions(es) ==
    IF es = <<>> THEN <<>>
    ELSE <<Header(SEC_WEBSOCKET_EXTENSIONS,
                  Join([i \in 1..Len(es) |-> es[i].name], <<44, 32>>))>>

\* Client::encode_request: what request.parse makes of the bytes written.
\* The protocols go into one Sec-WebSocket-Protocol header, "," between them.
EncodedRequest(h) ==
    Request(MethodGet, 1,
            <<Header(HdrHost, <<101, 120, 97, 109, 112, 108, 101, 46, 111, 114, 103>>),
              Header(HdrUpgrade, TokWebsocket),
              Header(HdrConnection, TokUpgrade),
              Header(HdrKey, h.nonce)>>
            \o (IF h.protocols = <<>> THEN <<>>
                ELSE <<Header(SEC_WEBSOCKET_PROTOCOL,
                              Join(h.protocols, <<44>>))>>)
            \o AppendExtensions(h.extensions)
            \o <<Header(HdrVersion, Tok13)>>)

\* env!("CARGO_PKG_VERSION"), which src/ does not fix.
SOKETTO_VERSION == <<48, 46, 48, 46, 48>>

\* Response::Accept(Accept { key, protocol }) and Response::Reject
Accept(key, protocol) == [tag |-> "Accept", key |-> key, protocol |-> protocol]
Reject(code) == [tag |-> "Reject", code |-> code]

\* StatusCode::from_u16(code).unwrap_or(INTERNAL_SERVER_ERROR): from_u16
\* takes 100 ..= 999.
StatusOf(code) == IF code >= 100 /\ code <= 999 THEN code ELSE 500

\* s.canonical_reason().unwrap_or("N/A")
CanonicalReason(code) ==
    CASE code = 400 -> <<66, 97, 100, 32, 82, 101, 113, 117, 101, 115, 116>>
      [] code = 500 -> <<73, 110, 116, 101, 114, 110, 97, 108, 32, 83, 101, 114, 118, 101, 114, 32, 69, 114, 114, 111, 114>>
      [] OTHER -> <<78, 47, 65>>

\* The accept value of a digest over the key alone, KEY left out.
AcceptHeaderKeyOnly(key) == Header(HdrAccept, Base64Encode(Sha1Digest(key)))

\* The Sec-WebSocket-Accept header of encode_response:
\* base64(sha1(accept.key || KEY)) (server.rs:183-190, 195-196).
AcceptHeader(key) == Header(HdrAccept, AcceptValue(key))

\* The enabled extensions, in order.
Enabled(es) == SelectSeq(es, LAMBDA e : e.enabled)

\* Server::encode_response: what response.parse makes of the bytes written.
EncodeResponse(h, r) ==
    IF r.tag = "Accept"
    THEN LET hdrs == <<Header(<<83, 101, 114, 118, 101, 114>>, <<115, 111, 107, 101, 116, 116, 111, 45>> \o SOKETTO_VERSION),
                       Header(HdrUpgrade, TokWebsocket),
                       Header(HdrConnection, TokUpgrade),
                       AcceptHeader(r.key)>>
                     \o (IF r.protocol.some
                         THEN <<Header(SEC_WEBSOCKET_PROTOCOL, r.protocol.val)>>
                         ELSE <<>>)
                     \o AppendExtensions(Enabled(h.extensions))
         IN  [parse |-> "Complete", version |-> 1, code |-> 101,
              headers |-> hdrs,
              offset |-> Len(<<72, 84, 84, 80, 47, 49, 46, 49, 32, 49, 48, 49, 32, 83, 119, 105, 116, 99, 104, 105, 110, 103, 32, 80, 114, 111, 116, 111, 99, 111, 108, 115>> \o <<13, 10>>
                             \o RenderHeaders(hdrs))]
    ELSE [parse |-> "Complete", version |-> 1, code |-> StatusOf(r.code),
          headers |-> <<>>,
          offset |-> Len(<<72, 84, 84, 80, 47, 49, 46, 49, 32>> \o Digits(StatusOf(r.code)) \o <<32>>
                         \o CanonicalReason(StatusOf(r.code))
                         \o <<13, 10, 13, 10>>)]

\* A client and a server on the two ends of one transport: the two objects,
\* what each has written to the other, and what each has got from its
\* decoder.
PairNew == [role |-> "Pair", client |-> ClientNew, server |-> ServerNew]
NothingSent == [parse |-> "Pair", request |-> NoMessage, responses |-> <<>>]
NothingDecoded == [kind |-> "Pair", request |-> NoResult, response |-> NoResult]

\* add_protocol of the client
ClientAddProtocol(p) ==
    /\ hs.role = "Pair" /\ hs.client.pc = "new"
    /\ Len(hs.client.protocols) < MaxOffered
    /\ hs' = [hs EXCEPT !.client.protocols = Append(@, p)]
    /\ UNCHANGED <<hsIn, hsOut>>
    /\ ConnUnchanged

\* add_protocol of the server
ServerAddProtocol(p) ==
    /\ hs.role = "Pair" /\ hs.server.pc = "new"
    /\ hsOut.request = NoResult /\ hsIn.responses = <<>>
    /\ Len(hs.server.protocols) < MaxOffered
    /\ hs' = [hs EXCEPT !.server.protocols = Append(@, p)]
    /\ UNCHANGED <<hsIn, hsOut>>
    /\ ConnUnchanged

\* add_extension of the client or of the server
PairAddExtension(side, n) ==
    /\ hs.role = "Pair" /\ hs[side].pc = "new"
    /\ hsOut.request = NoResult /\ hsIn.responses = <<>>
    /\ Len(hs[side].extensions) < MaxExtensions
    /\ hs' = [hs EXCEPT ![side].extensions = Append(@, Extension(n))]
    /\ UNCHANGED <<hsIn, hsOut>>
    /\ ConnUnchanged

\* Client::handshake up to the first read: the nonce is drawn, the request
\* encoded and written (client.rs:93-96).
ClientSendRequest(raw) ==
    /\ hs.role = "Pair" /\ hs.client.pc = "new"
    /\ LET c == [hs.client EXCEPT !.nonce = Base64Encode(raw), !.pc = "sent"]
       IN  /\ hs' = [hs EXCEPT !.client = c]
           /\ hsIn' = [hsIn EXCEPT !.request = EncodedRequest(c)]
    /\ UNCHANGED hsOut
    /\ ConnUnchanged

\* Server::receive_request once the request has arrived whole: the request
\* is decoded (server.rs:101-103).
ServerReceiveRequest ==
    /\ hs.role = "Pair" /\ hs.server.pc = "new"
    /\ hsIn.request # NoMessage
    /\ \E o \in DecodeRequest(hs.server, hsIn.request) :
          /\ hsOut' = [hsOut EXCEPT !.request = o.res]
          /\ hs' = [hs EXCEPT !.server.extensions = o.exts,
                              !.server.pc = "done"]
    /\ UNCHANGED hsIn
    /\ ConnUnchanged

\* The responses a caller may hand to send_response: a rejection, or an
\* acceptance of the key of the request it has got, if it has got one, with
\* or without one of the protocols of that request.
ResponseChoices ==
    {Reject(400)}
    \cup (IF hsOut.request.kind = "Done"
          THEN {Accept(hsOut.request.value.ws_key, p) :
                  p \in {OptNone}
                        \cup {OptSome(hsOut.request.value.protocols[i]) :
                                i \in 1..Len(hsOut.request.value.protocols)}}
          ELSE {})

\* Server::send_response: the response is encoded and written
\* (server.rs:110-116); nothing in it looks at what the server has done
\* before.
ServerSendResponse(r) ==
    /\ hs.role = "Pair"
    /\ Len(hsIn.responses) < MaxResponses
    /\ hsIn' = [hsIn EXCEPT !.responses =
                                Append(@, EncodeResponse(hs.server, r))]
    /\ UNCHANGED <<hs, hsOut>>
    /\ ConnUnchanged

\* The loop of Client::handshake once a response has arrived whole: the first
\* response on the transport is decoded (client.rs:105-108).
ClientReceiveResponse ==
    /\ hs.role = "Pair" /\ hs.client.pc = "sent"
    /\ hsIn.responses # <<>>
    /\ \E o \in DecodeResponse(hs.client, Head(hsIn.responses)) :
          /\ hsOut' = [hsOut EXCEPT !.response = o.res]
          /\ hs' = [hs EXCEPT !.client.extensions = o.exts,
                              !.client.pc = "done"]
    /\ UNCHANGED hsIn
    /\ ConnUnchanged

InitHandshake ==
    /\ mode = "Client"
    /\ NoConnection
    /\ hs = PairNew
    /\ hsIn = NothingSent
    /\ hsOut = NothingDecoded

NextHandshake ==
    \/ \E p \in ProtocolNames : ClientAddProtocol(p)
    \/ \E p \in ProtocolNames : ServerAddProtocol(p)
    \/ \E side \in {"client", "server"}, n \in ExtensionNames :
          PairAddExtension(side, n)
    \/ \E raw \in RawNonces : ClientSendRequest(raw)
    \/ ServerReceiveRequest
    \/ \E r \in ResponseChoices : ServerSendResponse(r)
    \/ ClientReceiveResponse

\* A client's handshake with a server: the request the one encodes is what
\* the other decodes, and the response likewise.
SpecHandshake == InitHandshake /\ [][NextHandshake]_vars

\* ------------------------------- from the handshake to the connection

\* The extensions a handshake may hold once it is over: each of two
\* extensions, enabled by a configure or not.
TakenOverChoices ==
    {[Extension(n) EXCEPT !.enabled = b] :
        n \in {ExtDeflate, ExtSnappy}, b \in BOOLEAN}
RECURSIVE ExtensionLists(_)
\* The lists of at most n of them.
ExtensionLists(n) ==
    IF n = 0 THEN {<<>>}
    ELSE ExtensionLists(n - 1)
         \cup {Append(l, x) : l \in {m \in ExtensionLists(n - 1) : Len(m) = n - 1},
                               x \in TakenOverChoices}

\* Connection::new(socket, mode)
ConnectionNew(md) == [mode |-> md, codec |-> CodecDefault, extensions |-> <<>>]

\* Codec::add_reserved_bits(bits): the bits are ORed into the reserved bits
\* the codec accepts.
AddReservedBits(cd, bits) == [cd EXCEPT !.reserved_bits = BitOr(@, bits)]

RECURSIVE AddExtensionsUnfiltered(_, _)
\* add_extensions without its filter: every extension is taken.
AddExtensionsUnfiltered(c, es) ==
    IF es = <<>> THEN c
    ELSE AddExtensionsUnfiltered(
             [c EXCEPT !.codec = AddReservedBits(@, Head(es).reserved_bits),
                       !.extensions = Append(@, Head(es))],
             Tail(es))

RECURSIVE AddExtensions(_, _)
\* Connection::add_extensions: for each enabled extension, in order, its
\* reserved bits are added to the codec and it is pushed.
AddExtensions(c, es) ==
    IF es = <<>> THEN c
    ELSE IF Head(es).enabled
         THEN AddExtensions(
                  [c EXCEPT !.codec = AddReservedBits(@, Head(es).reserved_bits),
                            !.extensions = Append(@, Head(es))],
                  Tail(es))
    ELSE AddExtensions(c, Tail(es))

\* Client::into_connection and Server::into_connection: the handshake is
\* consumed, its extensions drained into the connection if asked for.
IntoConnection(take_over_extensions) ==
    /\ hs.role \in {"Client", "Server"}
    /\ hs.pc = "done"
    /\ LET c0 == ConnectionNew(hs.role)
           c == IF take_over_extensions THEN AddExtensions(c0, hs.extensions)
                ELSE c0
       IN  /\ mode' = c.mode
           /\ codec' = c.codec
           /\ exts' = c.extensions
    /\ hs' = [hs EXCEPT !.pc = "connected", !.extensions = <<>>]
    /\ hsIn' = [parse |-> "IntoConnection",
                take_over_extensions |-> take_over_extensions,
                extensions |-> hs.extensions]
    /\ UNCHANGED <<wire, state, call, ret, retOf, dropped, nRecv, nSend,
                   sendPc, sendHdr, sendData, sendLog, lastIn, rxData,
                   pingLog, closeDone, caIn, caOut, decLog, hsOut>>

\* Connection::send on the connection the handshake was turned into.
ConnectedSend ==
    /\ hs.pc = "connected"
    /\ SendBegin(MaxSendMixed, SendPayloads)

InitConnect ==
    /\ mode = "Server"
    /\ NoConnection
    /\ hs \in {[h EXCEPT !.pc = "done", !.extensions = es] :
                  h \in {ClientNew, ServerNew},
                  es \in ExtensionLists(MaxTakenOver)}
    /\ hsIn = NoMessage
    /\ hsOut = NoResult

NextConnect ==
    \/ \E t \in BOOLEAN : IntoConnection(t)
    \/ ConnectedSend
    \/ SendWriteHeader
    \/ SendWritePayload

\* A finished handshake is turned into a connection, which sends.
SpecConnect == InitConnect /\ [][NextConnect]_vars

\* ------------------------------------------------- the header codec alone

\* The headers given to encode_header: every combination of the flags and
\* opcodes with lengths on both sides of each length code and of the
\* codec's maximum, masked or not.
HeaderInputs ==
    [fin : BOOLEAN, rsv1 : BOOLEAN, rsv2 : BOOLEAN, rsv3 : BOOLEAN,
     opcode : DataOps \cup ControlOps, masked : BOOLEAN,
     mask : {NoMask, ReplyMask},
     payload_len : {0, 125, 126, 65535, 65536, 268435456, 268435457}]

\* The codecs: the default one, and with RSV1 claimed by an extension.
CodecChoices == {CodecDefault, AddReservedBits(CodecDefault, 4)}

\* encode_header(h), then decode_header on the bytes it returned.
EncodeThenDecode ==
    /\ hs.role = "Codec" /\ hs.pc = "new"
    /\ sendHdr' = EncodeHeader(hsIn.header)
    /\ hsOut' = DecodeHeader(codec, EncodeHeader(hsIn.header))
    /\ hs' = [hs EXCEPT !.pc = "done"]
    /\ UNCHANGED <<mode, wire, state, call, ret, retOf, dropped, nRecv, nSend,
                   sendPc, sendData, sendLog, lastIn, rxData, pingLog,
                   closeDone, caIn, caOut, exts, codec, decLog, hsIn>>

InitHeader ==
    /\ mode = "Client"
    /\ wire = <<>>
    /\ state = St("Open", NoFrame, None)
    /\ call = "none"
    /\ ret = RNone
    /\ retOf = "none"
    /\ dropped = FALSE
    /\ nRecv = 0
    /\ nSend = 0
    /\ sendPc = "idle"
    /\ sendHdr = <<>>
    /\ sendData = <<>>
    /\ sendLog = <<>>
    /\ lastIn = NoFrame
    /\ rxData = <<>>
    /\ pingLog = <<>>
    /\ closeDone = FALSE
    /\ caIn = NoFrame
    /\ caOut = [done |-> FALSE, res |-> CloseAnswer(NoFrame)]
    /\ exts = <<>>
    /\ codec \in CodecChoices
    /\ decLog = <<>>
    /\ hs = [role |-> "Codec", pc |-> "new"]
    /\ hsIn \in [parse : {"Header"}, header : HeaderInputs]
    /\ hsOut = NoResult

\* The header codec applied to headers.
SpecHeader == InitHeader /\ [][EncodeThenDecode]_vars

\* ------------------------------------------ the read loops of a handshake

\* The four loops that read an HTTP head from the socket.
ClientLoops == {"Client::handshake", "WebSocket::handshake"}
ServerLoops == {"Server::receive_request", "WebSocket::handshake_request"}

\* A buffer in a read loop: the bytes lo..hi of what the peer sent, followed
\* by `zeros` bytes of value 0 that resize(.., 0) put there and no read has
\* overwritten.
Buf(lo, hi, zeros) == [lo |-> lo, hi |-> hi, zeros |-> zeros]
BufLen(b) == (b.hi - b.lo + 1) + b.zeros

\* buf.split_to(at): the first `at` bytes are removed (split_to panics when
\* at > len, see CanSplit).
SplitTo(b, at) ==
    IF at <= b.hi - b.lo + 1 THEN [b EXCEPT !.lo = @ + at]
    ELSE Buf(b.hi + 1, b.hi, b.zeros - (at - (b.hi - b.lo + 1)))
CanSplit(b, at) == at <= BufLen(b)

\* What the HTTP parser makes of a slice that holds the first `real` bytes
\* the peer sent followed by `zeros` bytes of value 0, the peer's message
\* being msg with a head of msg.offset bytes: the head once it is there
\* whole; Partial for a piece of the head and nothing else; an error for a
\* piece of the head followed by a byte 0, which no position of an HTTP head
\* admits.
ParseSlice(msg, real, zeros, partial, bad) ==
    IF real >= msg.offset THEN msg
    ELSE IF zeros > 0 THEN bad
    ELSE partial

\* The slice a loop gives to the decoder once `offset` bytes are read into
\* the buffer b: Client::handshake gives buf (client.rs:106), the others
\* &buf_slice[.. offset] (server.rs:102, websocket.rs:60, 103).
SliceGiven(impl, b, offset) ==
    IF impl = "Client::handshake"
    THEN [real |-> offset, zeros |-> BufLen(b) - offset]
    ELSE [real |-> offset, zeros |-> 0]

\* The sizes a read is asked to deliver at most: a byte, a few, a block.
ReadWants == {1, 64, BLOCK_SIZE}

Min(a, c) == IF a <= c THEN a ELSE c

\* The handshake object of a loop, and the loop's local state at its head.
LoopNew(impl, raw) ==
    [role |-> "Loop", impl |-> impl, pc |-> "reading",
     h |-> IF impl \in ClientLoops
           THEN [ClientNew EXCEPT !.nonce = Base64Encode(raw), !.pc = "sent"]
           ELSE ServerNew,
     buf |-> IF impl \in {"WebSocket::handshake", "WebSocket::handshake_request"}
             THEN Buf(1, 0, BLOCK_SIZE) ELSE Buf(1, 0, 0),
     offset |-> 0,
     eofs |-> 0,
     given |-> [real |-> 0, zeros |-> 0]]

\* A rejection whose head takes more than half a block, by a header the
\* client does not look at.
LongRejection ==
    Response(1, 400, <<Header(<<88, 45, 80, 97, 100>>, [i \in 1..(BLOCK_SIZE \div 2) |-> 97])>>)

\* The heads a peer may send to a loop. Client::handshake, the loop that
\* takes the head out of its buffer, is also sent a redirection and the long
\* rejection.
StreamHeads(impl, raw) ==
    IF impl \in ClientLoops
    THEN {EncodeResponse(ServerNew, Accept(Base64Encode(raw), OptNone)),
          EncodeResponse(ServerNew, Reject(400))}
         \cup (IF impl = "Client::handshake"
               THEN {Response(1, 301, <<Header(HdrLocation, <<47, 98>>)>>),
                     LongRejection}
               ELSE {})
    ELSE {EncodedRequest([ClientNew EXCEPT !.nonce = Base64Encode(raw)])}

\* The numbers of bytes a peer may have written when it closes the stream:
\* none, one, all but the last of the head, or the head and what follows.
Cuts(msg, extra) == {0, 1, msg.offset - 1, msg.offset + extra}

\* What the peer sends to a loop: the head of a message and up to MaxExtra
\* bytes after it, of which `sent` are written before the stream ends;
\* `taken` counts the bytes the loop has read.
Streams(impl, raw) ==
    UNION {{[parse |-> "Stream", msg |-> m, extra |-> e, sent |-> c, taken |-> 0] :
              c \in Cuts(m, e)} :
           m \in StreamHeads(impl, raw), e \in 0..MaxExtra}

\* One turn of a read loop: the buffer is grown if the loop does that before
\* reading, the read delivers n bytes (none when the stream has ended, which
\* no loop looks at), the decoder is given its slice, and the loop returns
\* or goes on.
ReadTurn(want) ==
    /\ hs.role = "Loop" /\ hs.pc = "reading"
    /\ LET impl == hs.impl
           ws == impl \in {"WebSocket::handshake", "WebSocket::handshake_request"}
           b1 == IF ~ws /\ BufLen(hs.buf) = hs.offset
                 THEN [hs.buf EXCEPT !.zeros = @ + BLOCK_SIZE] ELSE hs.buf
           avail == hsIn.sent - hsIn.taken
           n == Min(want, Min(avail, BufLen(b1) - hs.offset))
           b2 == [b1 EXCEPT !.hi = @ + n, !.zeros = @ - n]
           off == hs.offset + n
           given == SliceGiven(impl, b2, off)
           p == IF impl \in ClientLoops
                THEN ParseSlice(hsIn.msg, given.real, given.zeros,
                                PartialMessage, BadMessage)
                ELSE ParseSlice(hsIn.msg, given.real, given.zeros,
                                PartialRequest, BadRequest)
           outs == IF impl \in ClientLoops THEN DecodeResponse(hs.h, p)
                   ELSE DecodeRequest(hs.h, p)
       IN  /\ n = 0 => hs.eofs < MaxEofReads
           /\ hsIn' = [hsIn EXCEPT !.taken = @ + n]
           /\ \E o \in outs :
                 /\ hsOut' = o.res
                 /\ hs' = [hs EXCEPT
                       !.h = [@ EXCEPT !.extensions = o.exts],
                       !.offset = off,
                       !.eofs = IF n = 0 THEN @ + 1 ELSE @,
                       !.given = given,
                       !.buf =
                          IF o.res.kind = "Done" /\ impl = "Client::handshake"
                          THEN IF CanSplit(SplitTo(b2, p.offset), o.res.offset)
                               THEN SplitTo(SplitTo(b2, p.offset), o.res.offset)
                               ELSE SplitTo(b2, p.offset)
                          ELSE IF o.res.kind = "NeedMore" /\ ws
                               THEN [b2 EXCEPT !.zeros = @ + BLOCK_SIZE]
                          ELSE b2,
                       !.pc =
                          IF o.res.kind = "NeedMore" THEN "reading"
                          ELSE IF o.res.kind = "Err" THEN "failed"
                          ELSE IF impl = "Client::handshake"
                                  /\ ~CanSplit(SplitTo(b2, p.offset),
                                               o.res.offset)
                               THEN "panicked"
                          ELSE "done"]
    /\ ConnUnchanged

InitReadLoop ==
    /\ mode = "Client"
    /\ NoConnection
    /\ \E impl \in ClientLoops \cup ServerLoops, raw \in RawNonces :
          /\ hs = LoopNew(impl, raw)
          /\ hsIn \in Streams(impl, raw)
    /\ hsOut = NoResult

NextReadLoop == \E want \in ReadWants : ReadTurn(want)

\* The read loops of the handshakes, fed by a peer.
SpecReadLoop == InitReadLoop /\ [][NextReadLoop]_vars

\* ------------------------------------------------- the Unfold sink (sink.rs)

\* future: None
NoFuture ==
    [some |-> FALSE, cmd |-> "none", item |-> 0, p |-> 0, left |-> 0,
     result |-> "ok", status |-> "pending"]

\* unfold(init, f): the sink after construction. `issued` is the history of
\* the calls of the lambda; `repolled` tells that a future that had
\* completed has been polled again.
Unfold ==
    [role |-> "Sink", state |-> "Empty", param |-> [some |-> TRUE, val |-> 0],
     future |-> NoFuture, issued |-> <<>>, repolled |-> FALSE]

\* The futures the lambda may return for a command: each returns Pending on
\* `left` polls and then completes with its result.
Futures(p, cmd, item, results) ==
    {[some |-> TRUE, cmd |-> cmd, item |-> item, p |-> p, left |-> l,
      result |-> r, status |-> "pending"] :
        l \in 0..MaxPending, r \in results}

\* The mutation of Issue that leaves the state value in the sink.
IssueKeepsParam(s, cmd, item, next, results) ==
    {[s EXCEPT !.future = f, !.state = next,
               !.issued = Append(@, [cmd |-> cmd, item |-> item,
                                      after |-> IF s.future.some
                                                THEN s.future.status
                                                ELSE "none"])] :
        f \in Futures(s.param.val, cmd, item, results)}

\* `if let Some(p) = param.take()`, taken: the lambda is called with p and
\* the command, its future is stored and the state set.
Issue(s, cmd, item, next, results) ==
    {[s EXCEPT !.param = [some |-> FALSE, val |-> 0],
               !.future = f, !.state = next,
               !.issued = Append(@, [cmd |-> cmd, item |-> item,
                                      after |-> IF s.future.some
                                                THEN s.future.status
                                                ELSE "none"])] :
        f \in Futures(s.param.val, cmd, item, results)}

\* The mutation of the poll that never sees the future complete.
PollFutureStaysPending(s) == {[s |-> s, res |-> "Pending"]}

\* future().as_pin_mut().unwrap().poll(cx): the unwrap panics on None; a
\* future that has not completed returns Pending or completes; what a
\* future that has completed does when polled again is up to its type.
PollFuture(s) ==
    IF ~s.future.some THEN {[s |-> s, res |-> "Panic"]}
    ELSE IF s.future.status = "pending"
    THEN IF s.future.left > 0
         THEN {[s |-> [s EXCEPT !.future.left = @ - 1], res |-> "Pending"]}
         ELSE {[s |-> [s EXCEPT !.future.status = s.future.result],
                res |-> IF s.future.result = "ok" THEN "Ok" ELSE "Err"]}
    ELSE {[s |-> [s EXCEPT !.repolled = TRUE], res |-> "Panic"],
          [s |-> [s EXCEPT !.repolled = TRUE], res |-> "Pending"],
          [s |-> [s EXCEPT !.repolled = TRUE, !.future.status = "err"],
           res |-> "Err"],
          [s |-> [s EXCEPT !.repolled = TRUE, !.future.status = "ok"],
           res |-> "Ok"]}

\* The arm Ok(p): the state value the future hands back is stored.
Settle(s, next) ==
    [s EXCEPT !.param = [some |-> TRUE, val |-> s.future.p + 1],
              !.state = next]

\* What a handler returns when the poll did not give Ok: ready! returns
\* Pending, the arm Err returns the error, a panic goes on.
Ret(o) ==
    [s |-> o.s,
     res |-> IF o.res = "Err" THEN "ReadyErr" ELSE o.res]

\* A poll whose arm Ok stores the value, sets the state and returns.
PollAndReturn(s, next) ==
    {IF o.res = "Ok" THEN [s |-> Settle(o.s, next), res |-> "ReadyOk"]
     ELSE Ret(o) : o \in PollFuture(s)}

\* Unfold::poll_ready
PollReady(s) ==
    IF s.state \in {"Sending", "Flushing"} THEN PollAndReturn(s, "Empty")
    ELSE IF s.state = "Closing" THEN PollAndReturn(s, "Closed")
    ELSE {[s |-> s, res |-> "ReadyOk"]}

\* The mutation of start_send without its assertion.
StartSendUnchecked(s, item, results) ==
    IF s.param.some
    THEN {[s |-> t, res |-> "Ok"] :
            t \in Issue(s, "Send", item, "Sending", results)}
    ELSE {[s |-> s, res |-> "Ok"]}

\* Unfold::start_send
StartSend(s, item, results) ==
    IF s.state # "Empty" THEN {[s |-> s, res |-> "Panic"]}
    ELSE IF s.param.some
    THEN {[s |-> t, res |-> "Ok"] :
            t \in Issue(s, "Send", item, "Sending", results)}
    ELSE {[s |-> s, res |-> "Ok"]}

RECURSIVE PollFlush(_, _)
\* Unfold::poll_flush
PollFlush(s, results) ==
    IF s.state = "Empty"
    THEN IF s.param.some
         THEN UNION {PollFlush(t, results) :
                       t \in Issue(s, "Flush", 0, "Flushing", results)}
         ELSE {[s |-> s, res |-> "ReadyOk"]}
    ELSE IF s.state = "Sending"
    THEN UNION {IF o.res = "Ok" THEN PollFlush(Settle(o.s, "Empty"), results)
                ELSE {Ret(o)} : o \in PollFuture(s)}
    ELSE IF s.state = "Flushing" THEN PollAndReturn(s, "Empty")
    ELSE IF s.state = "Closing" THEN PollAndReturn(s, "Closed")
    ELSE {[s |-> s, res |-> "ReadyOk"]}

\* The mutation of poll_close that takes Closed for Empty.
PollCloseReopens(s, results) ==
    IF s.state \in {"Empty", "Closed"}
    THEN UNION {PollAndReturn(t, "Closed") :
                  t \in Issue(s, "Close", 0, "Closing", results)}
    ELSE PollAndReturn(s, IF s.state = "Closing" THEN "Closed" ELSE "Empty")

RECURSIVE PollClose(_, _)
\* Unfold::poll_close
PollClose(s, results) ==
    IF s.state = "Empty"
    THEN IF s.param.some
         THEN UNION {PollClose(t, results) :
                       t \in Issue(s, "Close", 0, "Closing", results)}
         ELSE {[s |-> s, res |-> "ReadyOk"]}
    ELSE IF s.state \in {"Sending", "Flushing"}
    THEN UNION {IF o.res = "Ok" THEN PollClose(Settle(o.s, "Empty"), results)
                ELSE {Ret(o)} : o \in PollFuture(s)}
    ELSE IF s.state = "Closing" THEN PollAndReturn(s, "Closed")
    ELSE {[s |-> s, res |-> "ReadyOk"]}

\* The caller of a sink and its lambda: the items start_send has taken, the
\* results the futures of the lambda may complete with, and whether the
\* caller has turned to closing, after which it calls poll_close only.
Callers ==
    {[parse |-> "Sink", items |-> <<>>, results |-> r, closing |-> FALSE] :
        r \in {{"ok"}, {"ok", "err"}}}

\* A call of a handler returns: the sink is as the handler left it, and the
\* call and its result are noted after those of the call before.
Returned(name, o) ==
    /\ hs' = o.s
    /\ hsOut' = [kind |-> "Sink", call |-> name, res |-> o.res,
                 after |-> [call |-> hsOut.call, res |-> hsOut.res]]

SinkPollReady ==
    /\ hs.role = "Sink" /\ ~hsIn.closing
    /\ \E o \in PollReady(hs) : Returned("poll_ready", o)
    /\ UNCHANGED hsIn
    /\ ConnUnchanged

SinkStartSend(item) ==
    /\ hs.role = "Sink" /\ ~hsIn.closing
    /\ Len(hs.issued) < MaxCommands
    /\ \E o \in StartSend(hs, item, hsIn.results) :
          /\ Returned("start_send", o)
          /\ hsIn' = IF o.res = "Ok" THEN [hsIn EXCEPT !.items = Append(@, item)]
                     ELSE hsIn
    /\ ConnUnchanged

SinkPollFlush ==
    /\ hs.role = "Sink" /\ ~hsIn.closing
    /\ Len(hs.issued) < MaxCommands
    /\ \E o \in PollFlush(hs, hsIn.results) : Returned("poll_flush", o)
    /\ UNCHANGED hsIn
    /\ ConnUnchanged

SinkPollClose ==
    /\ hs.role = "Sink"
    /\ \E o \in PollClose(hs, hsIn.results) : Returned("poll_close", o)
    /\ UNCHANGED hsIn
    /\ ConnUnchanged

\* The caller turns to closing the sink.
SinkTurnToClose ==
    /\ hs.role = "Sink" /\ ~hsIn.closing
    /\ hsIn' = [hsIn EXCEPT !.closing = TRUE]
    /\ UNCHANGED <<hs, hsOut>>
    /\ ConnUnchanged

InitSink ==
    /\ mode = "Client"
    /\ NoConnection
    /\ hs = Unfold
    /\ hsIn \in Callers
    /\ hsOut = [kind |-> "Sink", call |-> "unfold", res |-> "Ok",
                after |-> [call |-> "none", res |-> "none"]]

NextSink ==
    \/ SinkPollReady
    \/ \E item \in 1..MaxItem : SinkStartSend(item)
    \/ SinkPollFlush
    \/ SinkPollClose
    \/ SinkTurnToClose

\* An Unfold sink and its caller.
SpecSink == InitSink /\ [][NextSink]_vars

\* The same, with a caller that goes on calling poll_close.
SpecSinkClose == SpecSink /\ WF_vars(SinkPollClose)


\* ------------------------------------------------- handshake properties

\* Some header of the name (compared without case) has, among the pieces of
\* its value between commas, one that is the token once trimmed (compared
\* without case).
SomeHeaderHasToken(headers, name, tok) ==
    \E i \in 1..Len(headers) :
        /\ EqIgnoreAsciiCase(headers[i].name, name)
        /\ \E j \in 1..Len(Split(headers[i].value, 44)) :
               EqIgnoreAsciiCase(Trim(Split(headers[i].value, 44)[j]), tok)

\* The first header of the name, if any, has this value.
FirstHeaderIs(headers, name, v) ==
    \E i \in 1..Len(headers) :
        /\ EqIgnoreAsciiCase(headers[i].name, name)
        /\ headers[i].value = v
        /\ \A j \in 1..(i - 1) : ~EqIgnoreAsciiCase(headers[j].name, name)

\* There is a header of the name.
HeaderPresent(headers, name) ==
    \E i \in 1..Len(headers) : EqIgnoreAsciiCase(headers[i].name, name)

\* The client's decoder has returned on a response that was parsed whole.
ClientDecoded ==
    hs.role = "Client" /\ hsOut.kind \in {"Done", "Err"}
    /\ hsIn.parse = "Complete"

\* The decoder returned Done with a value of this tag.
Yields(tag) == hsOut.kind = "Done" /\ hsOut.value.tag = tag

\* The decoder failed with this error.
FailsWith(e) == hsOut.kind = "Err" /\ hsOut.err = e

\* C15: the client's response decoding yields Accepted only if the status is
\* 101, some Upgrade header contains the token websocket, some Connection
\* header contains the token upgrade, and the Sec-WebSocket-Accept header
\* equals base64(sha1(nonce || KEY)) for the nonce of this handshake's
\* request; a 101 response that passes the Upgrade and Connection checks and
\* whose accept value differs fails with InvalidSecWebSocketAccept.
C15_AcceptedOnlyIfValid ==
    /\ (hs.role = "Client" /\ Yields("Accepted")) =>
           /\ hsIn.code = 101
           /\ SomeHeaderHasToken(hsIn.headers, HdrUpgrade, TokWebsocket)
           /\ SomeHeaderHasToken(hsIn.headers, HdrConnection, TokUpgrade)
           /\ FirstHeaderIs(hsIn.headers, HdrAccept,
                            Base64Encode(Sha1Digest(hs.nonce \o KEY)))
    /\ (/\ ClientDecoded
        /\ hsIn.version = 1
        /\ hsIn.code = 101
        /\ SomeHeaderHasToken(hsIn.headers, HdrUpgrade, TokWebsocket)
        /\ SomeHeaderHasToken(hsIn.headers, HdrConnection, TokUpgrade)
        /\ HeaderPresent(hsIn.headers, HdrAccept)
        /\ ~FirstHeaderIs(hsIn.headers, HdrAccept,
                          Base64Encode(Sha1Digest(hs.nonce \o KEY))))
           => FailsWith("InvalidSecWebSocketAccept")

\* An Accepted result of handshake::Client, the token websocket found in the
\* second Upgrade header.
C15_Witness ==
    /\ hs.role = "Client"
    /\ hs.impl = "Client"
    /\ Yields("Accepted")
    /\ Len(WithName(hsIn.headers, HdrUpgrade)) = 2
    /\ hs.nonce # <<>>

\* C16: every HTTP/1.1 response whose status is neither 101 nor one of 301,
\* 302, 303, 307, 308 makes the client's response decoding produce Rejected
\* carrying that status code, a result and not an error.
C16_OtherStatusRejected ==
    (/\ ClientDecoded
     /\ hsIn.version = 1
     /\ hsIn.code \notin {101, 301, 302, 303, 307, 308})
        => /\ Yields("Rejected")
           /\ hsOut.value.code = hsIn.code

\* C17: a response with status 301, 302, 303, 307 or 308 that has a Location
\* header makes the client's response decoding produce Redirect with that
\* status code and the value of the first Location header, whatever its
\* Upgrade, Connection and Sec-WebSocket-Accept headers are; without a
\* Location header it fails with HeaderNotFound.
C17_Redirect ==
    (/\ ClientDecoded
     /\ hsIn.version = 1
     /\ hsIn.code \in {301, 302, 303, 307, 308})
        => IF HeaderPresent(hsIn.headers, HdrLocation)
           THEN /\ Yields("Redirect")
                /\ hsOut.value.status_code = hsIn.code
                /\ FirstHeaderIs(hsIn.headers, HdrLocation,
                                 hsOut.value.location)
           ELSE /\ FailsWith("HeaderNotFound")
                /\ hsOut.name = HdrLocation

\* A redirect taken from the first of two Location headers, in a response
\* that has neither a matching Upgrade header nor a Sec-WebSocket-Accept
\* header.
C17_Witness ==
    /\ ClientDecoded
    /\ Yields("Redirect")
    /\ hsOut.value.status_code = 307
    /\ hsOut.value.location = <<47, 120>>
    /\ Len(WithName(hsIn.headers, HdrLocation)) = 2
    /\ ~HeaderPresent(hsIn.headers, HdrAccept)
    /\ ~SomeHeaderHasToken(hsIn.headers, HdrUpgrade, TokWebsocket)

\* Some Sec-WebSocket-Extensions header names an extension that none of the
\* extensions has the name of.
NamesUnofferedExtension(headers, es) ==
    \E i \in 1..Len(headers) :
        /\ EqIgnoreAsciiCase(headers[i].name, SEC_WEBSOCKET_EXTENSIONS)
        /\ \E j \in 1..Len(Split(headers[i].value, 44)) :
               LET name == Trim(Head(Split(Split(headers[i].value, 44)[j],
                                           59)))
               IN  \A k \in 1..Len(es) : ~EqIgnoreAsciiCase(es[k].name, name)

\* The response is a 101 response over HTTP/1.1 that passes the checks of
\* Upgrade, Connection and Sec-WebSocket-Accept.
ValidSwitching ==
    /\ hsIn.version = 1
    /\ hsIn.code = 101
    /\ SomeHeaderHasToken(hsIn.headers, HdrUpgrade, TokWebsocket)
    /\ SomeHeaderHasToken(hsIn.headers, HdrConnection, TokUpgrade)
    /\ FirstHeaderIs(hsIn.headers, HdrAccept,
                     Base64Encode(Sha1Digest(hs.nonce \o KEY)))

\* C18: when a 101 response's Sec-WebSocket-Extensions header names an
\* extension the client did not offer (no extension of that name is held by
\* the handshake), the client's response decoding fails with
\* UnsolicitedExtension and does not produce Accepted.
C18_UnsolicitedExtension ==
    (/\ ClientDecoded
     /\ ValidSwitching
     /\ NamesUnofferedExtension(hsIn.headers, hs.extensions))
        => /\ FailsWith("UnsolicitedExtension")
           /\ ~Yields("Accepted")

\* The value is one of the protocols added to the handshake.
Requested(v) == \E i \in 1..Len(hs.protocols) : hs.protocols[i] = v

\* C19: the protocol carried by an Accepted result is either absent or one
\* of the protocols the client added to the handshake (the one the response
\* names); a 101 response that passes the checks before it and whose
\* Sec-WebSocket-Protocol value is not among the requested protocols fails
\* with UnsolicitedProtocol, unless configuring an extension the response
\* names has failed first.
C19_ProtocolRequested ==
    /\ (hs.role = "Client" /\ Yields("Accepted")
        /\ hsOut.value.protocol.some)
           => /\ Requested(hsOut.value.protocol.val)
              /\ FirstHeaderIs(hsIn.headers, SEC_WEBSOCKET_PROTOCOL,
                               hsOut.value.protocol.val)
    /\ (/\ ClientDecoded
        /\ ValidSwitching
        /\ HeaderPresent(hsIn.headers, SEC_WEBSOCKET_PROTOCOL)
        /\ \A i \in 1..Len(hs.protocols) :
               ~FirstHeaderIs(hsIn.headers, SEC_WEBSOCKET_PROTOCOL,
                              hs.protocols[i]))
           => IF FailsWith("Extension")
              THEN ~NamesUnofferedExtension(hsIn.headers, hs.extensions)
              ELSE FailsWith("UnsolicitedProtocol")

\* The server has picked the protocol the client asked for.
C19_Witness ==
    /\ hs.role = "Client"
    /\ Yields("Accepted")
    /\ hsOut.value.protocol = OptSome(ProtoChat)
    /\ hs.protocols = <<ProtoChat>>

\* The server's decoder has returned on a request that was parsed whole.
ServerDecoded ==
    hs.role = "Server" /\ hsOut.kind \in {"Done", "Err"}
    /\ hsIn.parse = "Complete"

\* The errors the claim assigns to the headers of a request: HeaderNotFound
\* for a header that is absent (Host, Upgrade, Connection,
\* Sec-WebSocket-Version, Sec-WebSocket-Key), UnexpectedHeader for one that
\* is there without the token asked for (Upgrade: websocket, Connection:
\* upgrade, Sec-WebSocket-Version: 13).
HeaderFaults(headers) ==
    {<<"HeaderNotFound", n>> :
        n \in {m \in {HdrHost, HdrUpgrade, HdrConnection, HdrVersion, HdrKey} :
                  ~HeaderPresent(headers, m)}}
    \cup
    {<<"UnexpectedHeader", p[1]>> :
        p \in {q \in {<<HdrUpgrade, TokWebsocket>>, <<HdrConnection, TokUpgrade>>,
                      <<HdrVersion, Tok13>>} :
                  /\ HeaderPresent(headers, q[1])
                  /\ ~SomeHeaderHasToken(headers, q[1], q[2])}}

\* C20: the server's request decoding produces a ClientRequest only if the
\* method is GET, the version is HTTP/1.1, a Host header is present, Upgrade
\* contains websocket, Connection contains upgrade, Sec-WebSocket-Version
\* contains 13 and a Sec-WebSocket-Key header is present; a request that
\* lacks one of these fails: with InvalidRequestMethod if the method is not
\* GET (whatever the version), else with UnsupportedHttpVersion if the
\* version is not 1.1, else with HeaderNotFound or UnexpectedHeader naming a
\* header that is absent or lacks its token.
C20_DecodeRequest ==
    /\ (hs.role = "Server" /\ Yields("ClientRequest")) =>
           /\ hsIn.method = MethodGet
           /\ hsIn.version = 1
           /\ HeaderFaults(hsIn.headers) = {}
           /\ FirstHeaderIs(hsIn.headers, HdrKey, hsOut.value.ws_key)
    /\ (ServerDecoded /\ hsIn.method # MethodGet)
           => FailsWith("InvalidRequestMethod")
    /\ (ServerDecoded /\ hsIn.method = MethodGet /\ hsIn.version # 1)
           => FailsWith("UnsupportedHttpVersion")
    /\ (/\ ServerDecoded
        /\ hsIn.method = MethodGet
        /\ hsIn.version = 1
        /\ HeaderFaults(hsIn.headers) # {})
           => /\ hsOut.kind = "Err"
              /\ <<hsOut.err, hsOut.name>> \in HeaderFaults(hsIn.headers)

\* A request decoded to a ClientRequest, the token websocket found in the
\* second Upgrade header and 13 in a list of versions.
C20_Witness ==
    /\ hs.role = "Server"
    /\ Yields("ClientRequest")
    /\ hsOut.value.ws_key # <<>>
    /\ Len(WithName(hsIn.headers, HdrUpgrade)) = 2
    /\ Len(hsOut.value.protocols) = 1

\* Some header of the name has a value that is UTF-8 and has the token.
SomeTextHeaderHasToken(headers, name, tok) ==
    \E i \in 1..Len(headers) :
        /\ IsUtf8(headers[i].value)
        /\ SomeHeaderHasToken(<<headers[i]>>, name, tok)

\* The last header of the name has a value that is not UTF-8.
LastHeaderNotText(headers, name) ==
    \E i \in 1..Len(headers) :
        /\ EqIgnoreAsciiCase(headers[i].name, name)
        /\ ~IsUtf8(headers[i].value)
        /\ \A j \in (i + 1)..Len(headers) :
               ~EqIgnoreAsciiCase(headers[j].name, name)

\* expect_ascii_header has returned.
Expected == hs.role = "Expect" /\ hs.pc = "done"

\* C23 as stated: expect_ascii_header succeeds exactly when some header of
\* the name has, among the comma-separated pieces of its value, one that is
\* the expected token once trimmed and compared without case; with no header
\* of the name it fails with HeaderNotFound(name), and with headers of the
\* name but no such token with UnexpectedHeader(name).
C23_ExpectAsStated ==
    Expected =>
        LET found == SomeHeaderHasToken(hsIn.headers, hsIn.name, hsIn.ours)
        IN  /\ (hsOut.kind = "Ok") <=> found
            /\ ~HeaderPresent(hsIn.headers, hsIn.name)
                   => hsOut = HsErr("HeaderNotFound", hsIn.name)
            /\ (HeaderPresent(hsIn.headers, hsIn.name) /\ ~found)
                   => hsOut = HsErr("UnexpectedHeader", hsIn.name)

\* C23 amended: expect_ascii_header succeeds exactly when some header of the
\* name has a UTF-8 value with the token, whatever the number of headers of
\* the name and whichever of them has it; otherwise it fails with
\* HeaderNotFound(name) when no header has the name, with Utf8 when the last
\* header of the name is not UTF-8, and with UnexpectedHeader(name) in the
\* remaining case.
C23_ExpectAsciiHeader ==
    Expected =>
        LET found == SomeTextHeaderHasToken(hsIn.headers, hsIn.name, hsIn.ours)
        IN  hsOut =
              IF found THEN OkUnit
              ELSE IF ~HeaderPresent(hsIn.headers, hsIn.name)
                   THEN HsErr("HeaderNotFound", hsIn.name)
              ELSE IF LastHeaderNotText(hsIn.headers, hsIn.name)
                   THEN HsErr("Utf8", <<>>)
              ELSE HsErr("UnexpectedHeader", hsIn.name)

\* Two headers of the name, the token in the first of them only: the call
\* succeeds.
C23_Witness ==
    /\ Expected
    /\ hsOut.kind = "Ok"
    /\ Len(WithName(hsIn.headers, hsIn.name)) = 2
    /\ HasToken(hsIn.headers[1].value, hsIn.ours)
    /\ ~HasToken(hsIn.headers[2].value, hsIn.ours)

\* C26: whenever a handshake decoder of handshake::Client returns Done, on
\* an accepted, a redirected or a rejected response, the offset it returns
\* is the number of bytes of the HTTP head it has parsed.
C26_OffsetIsHeadLength ==
    (ClientDecoded /\ hs.impl = "Client" /\ hsOut.kind = "Done")
        => hsOut.offset = hsIn.offset

\* The elements of a sequence.
Range(s) == {s[i] : i \in 1..Len(s)}

\* C21: when the server has decoded the request the client's encode_request
\* wrote, the ClientRequest lists every protocol the client offered that the
\* server supports, and no protocol the server does not support, however
\* many protocols the client offered.
C21_OfferedAndSupportedListed ==
    (hs.role = "Pair" /\ hsOut.request.kind = "Done")
        => /\ Range(hs.client.protocols) \cap Range(hs.server.protocols)
                  \subseteq Range(hsOut.request.value.protocols)
           /\ Range(hsOut.request.value.protocols)
                  \subseteq Range(hs.server.protocols)

\* The client has decoded a response the server built with Response::Accept
\* from the key of the ClientRequest it decoded from the client's request,
\* and that response names no protocol and no extension.
BareAcceptDecoded ==
    /\ hs.role = "Pair"
    /\ hsOut.response.kind # "None"
    /\ hsOut.request.kind = "Done"
    /\ Head(hsIn.responses) =
           EncodeResponse([hs.server EXCEPT !.extensions = <<>>],
                          Accept(hsOut.request.value.ws_key, OptNone))

\* C28: an Accept response the server builds from the key of the
\* ClientRequest decoded from the client's own request, with no protocol and
\* no extension in it, is validated by that client: the check of
\* Sec-WebSocket-Accept passes and the client gets Accepted with no protocol.
C28_AcceptRoundTrip ==
    BareAcceptDecoded
        => /\ hsOut.response.kind = "Done"
           /\ hsOut.response.value = Accepted(OptNone)

\* Such a response has been decoded by a client that offered a protocol and
\* an extension.
C28_Witness ==
    /\ BareAcceptDecoded
    /\ hsOut.response.kind = "Done"
    /\ hs.client.protocols # <<>>
    /\ hs.client.extensions # <<>>

\* C27: the server's handshake is linear: at every point of every sequence of
\* operations on a Server, response bytes have been written only if a
\* request has been parsed with success before, and at most one response has
\* been written.
C27_ServerLinear ==
    hs.role = "Pair"
        => /\ hsIn.responses # <<>> => hsOut.request.kind = "Done"
           /\ Len(hsIn.responses) <= 1

\* The handshake has been turned into a connection.
Connected == hs.role \in {"Client", "Server"} /\ hs.pc = "connected"

RECURSIVE OrOfReservedBits(_)
\* The bitwise OR of the reserved bits of the extensions.
OrOfReservedBits(es) ==
    IF es = <<>> THEN 0
    ELSE BitOr(Head(es).reserved_bits, OrOfReservedBits(Tail(es)))

\* C22: after into_connection(true) the connection holds exactly the
\* extensions of the handshake that are enabled, in their order, and the
\* codec accepts the bitwise OR of their reserved bits; after
\* into_connection(false) it holds no extension and accepts no reserved bit.
C22_IntoConnection ==
    Connected =>
        IF hsIn.take_over_extensions
        THEN /\ exts = SelectSeq(hsIn.extensions, LAMBDA e : e.enabled)
             /\ codec.reserved_bits = OrOfReservedBits(exts)
        ELSE /\ exts = <<>>
             /\ codec.reserved_bits = 0

\* A handshake with a disabled extension ahead of an enabled one has been
\* turned into a connection that took the extensions over.
C22_Witness ==
    /\ Connected
    /\ hsIn.take_over_extensions
    /\ Len(hsIn.extensions) = 2
    /\ ~hsIn.extensions[1].enabled
    /\ hsIn.extensions[2].enabled
    /\ codec.reserved_bits = hsIn.extensions[2].reserved_bits
    /\ codec.reserved_bits # 0

\* The last call of send met an extension whose encode failed.
SendMetFailure ==
    /\ Connected
    /\ sendLog # <<>>
    /\ sendLog[Len(sendLog)].fails # {}

\* C29: when an extension's encode fails during send, send returns the
\* Extension error, the extensions after the first failing one are not
\* called, and no byte of the frame, header or payload, is written.
C29_EncodeFailureStopsSend ==
    SendMetFailure =>
        LET e == sendLog[Len(sendLog)]
        IN  /\ retOf = "send" /\ ret = RErr("Extension")
            /\ e.calls = CHOOSE i \in e.fails : \A j \in e.fails : i <= j
            /\ sendPc = "idle"
            /\ Len(wire) = e.at

\* With two extensions installed the first one's encode has failed.
C29_Witness ==
    /\ SendMetFailure
    /\ Len(exts) = 2
    /\ 1 \in sendLog[Len(sendLog)].fails
    /\ ret = RErr("Extension")

\* The sends of a client that have written header and payload: their
\* indices in sendLog.
WholeClientSends ==
    {i \in 1..Len(sendLog) : mode = "Client" /\ 2 * i <= Len(SendChunks)}

\* C25: applying apply_mask twice with the same key gives the bytes back, so
\* that a receiver who unmasks the payload a client sent with the key in
\* the frame's header gets exactly the bytes the sender passed to send.
C25_MaskSelfInverse ==
    \A i \in WholeClientSends :
        LET key == SubSeq(SendChunks[2 * i - 1].bytes, 3, 6)
            data == sendLog[i].data
        IN  /\ ApplyMask(key, ApplyMask(key, data)) = data
            /\ ApplyMask(key, SendChunks[2 * i].bytes) = data

\* A client has sent a payload longer than the key, which went out changed.
C25_Witness ==
    /\ 1 \in WholeClientSends
    /\ Len(sendLog[1].data) > 4
    /\ SendChunks[2].bytes # sendLog[1].data
    /\ ApplyMask(SubSeq(SendChunks[1].bytes, 3, 6), SendChunks[2].bytes)
           = sendLog[1].data

\* A valid header for the codec: a control frame is final and has at most
\* 125 bytes of payload, the payload is at most max_payload_len, and no RSV
\* bit is set that the codec does not accept.
ValidHeader(cd, h) ==
    /\ h.opcode \in ControlOps => (h.fin /\ h.payload_len <= 125)
    /\ h.payload_len <= cd.max_payload_len
    /\ h.rsv1 => (cd.reserved_bits \div 4) % 2 = 1
    /\ h.rsv2 => (cd.reserved_bits \div 2) % 2 = 1
    /\ h.rsv3 => cd.reserved_bits % 2 = 1

\* Equal headers; the mask of a header that is not masked is irrelevant.
SameHeader(a, b) ==
    /\ [a EXCEPT !.mask = NoMask] = [b EXCEPT !.mask = NoMask]
    /\ a.masked => a.mask = b.mask

\* A header has been encoded and the bytes decoded.
HeaderDecoded == hs.role = "Codec" /\ hs.pc = "done"

\* C24: for every valid header h, decode_header(encode_header(h)) returns
\* Done with a header equal to h and with consumed equal to the number of
\* bytes encode_header returned.
C24_HeaderRoundTrip ==
    (HeaderDecoded /\ ValidHeader(codec, hsIn.header))
        => /\ hsOut.kind = "Done"
           /\ SameHeader(hsOut.header, hsIn.header)
           /\ hsOut.consumed = Len(sendHdr)

\* A masked header with RSV1 set and a length that needs the 8-byte field
\* has gone through.
C24_Witness ==
    /\ HeaderDecoded
    /\ ValidHeader(codec, hsIn.header)
    /\ hsIn.header.masked /\ hsIn.header.mask # NoMask
    /\ hsIn.header.rsv1
    /\ hsIn.header.payload_len = 65536
    /\ hsOut.kind = "Done"
    /\ hsOut.consumed = 14

\* C30: in every read loop of a handshake, the slice the HTTP parser is
\* given holds exactly the bytes read from the socket so far, and none of
\* the zero bytes the buffer was filled up with.
C30_ParserGivenBytesRead ==
    (hs.role = "Loop" /\ hsIn.taken > 0)
        => /\ hs.given.real = hsIn.taken
           /\ hs.given.zeros = 0

\* C31: when the stream ends (a read returns 0 bytes) before the whole HTTP
\* head has been received, Client::handshake and Server::receive_request end
\* with an error and do not go on reading.
C31_EofEndsLoop ==
    (/\ hs.role = "Loop"
     /\ hs.impl \in {"Client::handshake", "Server::receive_request"}
     /\ hs.eofs >= 1)
        => hs.pc = "failed"

\* Client::handshake has returned Ok, or has been stopped by a panic in it.
ClientLoopOver ==
    /\ hs.role = "Loop"
    /\ hs.impl = "Client::handshake"
    /\ hs.pc \in {"done", "panicked"}

\* C32: when Client::handshake returns Ok, whether the response is Accepted,
\* Redirect or Rejected, the bytes of the head and no others have been taken
\* out of buf, once: no removal is longer than the buffer, and the bytes
\* received after the head are at the front of buf.
C32_HeadRemovedOnce ==
    ClientLoopOver
        => /\ hs.pc = "done"
           /\ hs.buf.lo = hsIn.msg.offset + 1
           /\ hs.buf.hi = hsIn.taken
           /\ (BufLen(hs.buf) + hsIn.msg.offset) % BLOCK_SIZE = 0

\* The states in which a future of the lambda is awaited.
Awaiting == {"Sending", "Flushing", "Closing"}

\* C33: in every reachable state of the Unfold sink, the state value param
\* is held exactly when the state is Empty or Closed, and a future is there
\* with param None exactly when the state is Sending, Flushing or Closing, so
\* that the unwrap of the future never fails.
C33_ParamOrFuture ==
    hs.role = "Sink"
        => /\ hs.param.some <=> hs.state \in {"Empty", "Closed"}
           /\ (hs.future.some /\ ~hs.param.some) <=> hs.state \in Awaiting
           /\ hs.state \in Awaiting => hs.future.some

\* A sink that has sent, has been told to close and awaits the future of
\* Close, which has returned Pending.
C33_Witness ==
    /\ hs.role = "Sink"
    /\ hs.state = "Closing"
    /\ Len(hs.issued) >= 2
    /\ hsOut.call = "poll_close" /\ hsOut.res = "Pending"

\* start_send has been called right after a poll_ready that returned
\* Ready(Ok(())).
SendAfterReady ==
    /\ hs.role = "Sink"
    /\ hsOut.call = "start_send"
    /\ hsOut.after = [call |-> "poll_ready", res |-> "ReadyOk"]

\* C34: whenever poll_ready has returned Ready(Ok(())), a start_send that
\* follows at once finds the state Empty, as it asserts, and returns Ok;
\* also after the sink has been closed.
C34_ReadyThenSend == SendAfterReady => hsOut.res = "Ok"

\* The calls of the lambda with the command Close.
CloseIssued(s) == {i \in 1..Len(s.issued) : s.issued[i].cmd = "Close"}

\* C35: Closed is terminal: once the state is Closed, poll_ready,
\* poll_flush and poll_close return Ready(Ok(())) and no handler calls the
\* lambda or changes the sink, so that Close is issued to the lambda at most
\* once.
C35_ClosedIsTerminal ==
    [][hs.role = "Sink"
         => /\ Cardinality(CloseIssued(hs')) <= 1
            /\ hs.state = "Closed"
                  => /\ hs' = hs
                     /\ hsOut'.call \in {"poll_ready", "poll_flush", "poll_close"}
                           => hsOut'.res = "ReadyOk"]_vars

\* poll_flush has returned on a sink that poll_ready had found closed.
C35_Witness ==
    /\ hs.role = "Sink"
    /\ hs.state = "Closed"
    /\ Cardinality(CloseIssued(hs)) = 1
    /\ hsOut.call = "poll_flush" /\ hsOut.res = "ReadyOk"
    /\ hsOut.after = [call |-> "poll_ready", res |-> "ReadyOk"]

\* The items of the commands Send the lambda has been called with, in order.
ItemsIssued(s) ==
    LET sends == SelectSeq(s.issued, LAMBDA c : c.cmd = "Send")
    IN  [i \in 1..Len(sends) |-> sends[i].item]

\* C36: the Unfold sink issues its commands to the lambda one at a time and
\* in the order of the calls: each command but the first is issued after the
\* future of the command before it has completed with Ok, the items taken by
\* start_send are the items of the commands Send, one for one and in order,
\* and so Close is issued only when a Send or Flush before it has completed.
C36_OneCommandAtATime ==
    hs.role = "Sink"
        => /\ \A i \in 1..Len(hs.issued) :
                 hs.issued[i].after = IF i = 1 THEN "none" ELSE "ok"
           /\ ItemsIssued(hs) = hsIn.items

\* A poll_close called right after start_send has seen the future of Send
\* complete and has issued Close as the third command.
C36_Witness ==
    /\ hs.role = "Sink"
    /\ hsOut.call = "poll_close" /\ hsOut.after.call = "start_send"
    /\ Len(hs.issued) = 3
    /\ hs.issued[2].cmd = "Send" /\ hs.issued[3].cmd = "Close"
    /\ hsIn.items # <<>>

\* C37: after the future in flight has completed with Err and the error has
\* been returned, no later call of poll_ready, poll_flush or poll_close
\* polls that future, which has completed, again.
C37_NoPollAfterErr == hs.role = "Sink" => ~hs.repolled

\* The futures of the lambda all complete with Ok, and the caller has turned
\* to calling poll_close.
ClosingWithOkFutures ==
    /\ hs.role = "Sink"
    /\ hsIn.results = {"ok"}
    /\ hsIn.closing

\* poll_close has returned Ready(Ok(())) with the sink closed.
ClosedByPollClose ==
    /\ hs.state = "Closed"
    /\ hsOut.call = "poll_close" /\ hsOut.res = "ReadyOk"

\* C38: if every future of the lambda completes with Ok in the end and the
\* caller goes on calling poll_close, then from any state of the sink the
\* state Closed is reached and poll_close returns Ready(Ok(())).
C38_CloseCompletes == ClosingWithOkFutures ~> ClosedByPollClose

\* The caller turned to closing while a Send was in flight, and poll_close
\* has closed the sink.
C38_Witness ==
    /\ ClosingWithOkFutures
    /\ ClosedByPollClose
    /\ hsIn.items # <<>>
    /\ hsOut.after = [call |-> "poll_close", res |-> "Pending"]

====
